---- MODULE Spec2Model ----
(***************************************************************************)
(* Model of the recipe recommender of backend/api/recommender.py: the      *)
(* inventory-mode pipeline (recommend_from_inventory), the goal-mode       *)
(* pipeline (create_meal_plan) and the pure functions they are built from. *)
(*                                                                         *)
(* Scores are exact fractions on a common integer scale: the score 1.0 is  *)
(* ScoreUnit, a bonus of 0.15 is 15 hundredths.  An optional value (None   *)
(* or a number) is a set with at most one element.                         *)
(***************************************************************************)
EXTENDS Integers, Sequences, FiniteSets, TLC

VARIABLES
    recipe_ing_map,     \* Recipe-Ingredient_Map: recipe id -> set of ingredient ids
    pc,                 \* position of the call in progress
    inventory_dict,     \* ingredient id -> item info, built by recommend_from_inventory
    scored_recipes,     \* candidate list of the inventory call (after sort / filter)
    num_recipes,        \* the count argument of the call in progress
    diverse_recipes,    \* the candidates selected for the answer
    path,               \* which branch produced diverse_recipes
    recommendations,    \* the list returned by recommend_from_inventory
    summary,            \* summary string of the inventory call
    ranked,             \* goal mode: the ranking-stage candidates
    meal_plan,          \* goal mode: the list returned by create_meal_plan
    raised,             \* TRUE when the call ended by raising
    encodeCalls,        \* calls of embedder.encode made by the diversity selector
    kmeansCalls,        \* calls of KMeans.fit_predict made by the diversity selector
    unit,               \* the pure-function call under examination
    filterResponse,     \* how the call of the text-match service ended ("none": no call)
    request,            \* the request body an endpoint of index.py received
    status,             \* status code and detail of the endpoint's answer (0: none yet)
    invoked,            \* the engine function the endpoint called ("none": not called)
    goal,               \* goal mode: what the language-model service did and the texts it gave
    cache,              \* lru_cache of each loader: the object it holds, if any
    bodyRuns,           \* how many times the body of each loader has run
    catalogColumns,     \* the columns of the memoized recipe_data frame
    threads             \* each request thread's position in its loader call

vars == <<recipe_ing_map, pc, inventory_dict, scored_recipes, num_recipes,
          diverse_recipes, path, recommendations, summary, ranked, meal_plan,
          raised, encodeCalls, kmeansCalls, unit, filterResponse, request,
          status, invoked, goal, cache, bodyRuns, catalogColumns, threads>>

----------------------------------------------------------------------------
(* Bounds of the model *)

NumIngredients == 3
ExtraIds == 2
NumRecipes == 3
MaxNum == 3
MaxSim == 2
MaxDays == 16
NumThreads == 2
MaxItems == 3

(* Program constants *)

CRITICAL_DAYS == 2
WARNING_DAYS == 7
CRITICAL_BONUS == 15
WARNING_BONUS == 5
MAX_BONUS == 30
TopCandidates == 20
Today == 10

\* The ids of the Ingredient table, and the ids a row of the map or an item
\* of a request can carry (the last ExtraIds of them are in no Ingredient row).
IngredientIds == 1..NumIngredients
AllIds == 1..(NumIngredients + ExtraIds)
RecipeIds == 1..NumRecipes

RECURSIVE Factorial(_)
Factorial(n) == IF n <= 1 THEN 1 ELSE n * Factorial(n - 1)

\* The integer that stands for the score 1.0; the length of every row list
\* divides it.
ScoreUnit == 100 * Factorial(NumIngredients + ExtraIds)
Hundredth == ScoreUnit \div 100

Min(a, b) == IF a <= b THEN a ELSE b

----------------------------------------------------------------------------
(* Python helpers *)

\* Faulty variant of PyPrefix: the slice bound is ignored.
PyPrefix_NoCut(s, n) == s

\* s[:n] of Python: the first n elements, or all but the last -n when n < 0.
PyPrefix(s, n) ==
    LET k == IF n >= 0 THEN Min(n, Len(s))
             ELSE IF Len(s) + n > 0 THEN Len(s) + n ELSE 0
    IN SubSeq(s, 1, k)

\* list.sort(key=..., reverse=True), with keys[i] the key of s[i]: descending
\* and stable.
StableSortDesc(s, keys) ==
    LET n == Len(s)
        pos(i) == 1 + Cardinality({j \in 1..n : keys[j] > keys[i]})
                    + Cardinality({j \in 1..(i - 1) : keys[j] = keys[i]})
    IN [p \in 1..n |-> s[CHOOSE i \in 1..n : pos(i) = p]]

\* The elements of an ascending enumeration of a set of integers.
RECURSIVE Ascending(_)
Ascending(S) ==
    IF S = {} THEN << >>
    ELSE LET m == CHOOSE x \in S : \A y \in S : x <= y
         IN <<m>> \o Ascending(S \ {m})

\* The elements of a list.
Range(s) == {s[i] : i \in DOMAIN s}

RECURSIVE SumSeq(_)
SumSeq(s) == IF s = << >> THEN 0 ELSE Head(s) + SumSeq(Tail(s))

\* [f(x) for x in s if keep(x)]
RECURSIVE SelectMap(_, _, _)
SelectMap(s, keep, f) ==
    IF s = << >> THEN << >>
    ELSE (IF keep[Head(s)] THEN <<f[Head(s)]>> ELSE << >>)
         \o SelectMap(Tail(s), keep, f)

----------------------------------------------------------------------------
(* Catalog tables *)

\* ingredients[ingredients["id"] == ing_id].iloc[0]["name"]
IngredientName(ing_id) == <<"ingredient", ing_id>>

\* The name put in the missing list (lines 286-290).
MissingName(ing_id) ==
    IF ing_id \in IngredientIds THEN IngredientName(ing_id)
    ELSE <<"Unknown ingredient", ing_id>>

\* The rows of the map for one recipe, as ingredient ids in table order.
RecipeRows(map, recipe_id) == Ascending(map[recipe_id])

----------------------------------------------------------------------------
(* Expiration dates *)

\* An expiration_date input: null, an empty string, an unparseable string,
\* or an ISO date, given as its day number.
DayOffsets == {-1, 2, 3, 7, 8}
DateInputs ==
    {[kind |-> k, day |-> 0] : k \in {"null", "empty", "malformed"}}
    \cup {[kind |-> "iso", day |-> Today + d] : d \in DayOffsets}

\* The dates sent with the items of a request: none, an unparseable one, one
\* already past and one within the week.
RequestOffsets == {-1, 5}
RequestDates ==
    {[kind |-> k, day |-> 0] : k \in {"null", "malformed"}}
    \cup {[kind |-> "iso", day |-> Today + d] : d \in RequestOffsets}

\* Faulty variant of calculate_days_until_expiration: a string that does not
\* parse counts as today's date.
calculate_days_until_expiration_MalformedAsToday(expiration_date) ==
    IF expiration_date.kind \in {"null", "empty"} THEN {}
    ELSE IF expiration_date.kind = "malformed" THEN {0}
    ELSE {expiration_date.day - Today}

calculate_days_until_expiration(expiration_date) ==
    IF expiration_date.kind \in {"null", "empty"} THEN {}
    ELSE IF expiration_date.kind = "malformed" THEN {}
    ELSE {expiration_date.day - Today}

\* Faulty variant of calculate_expiration_urgency: the upper bound of each
\* bracket is exclusive.
calculate_expiration_urgency_ExclusiveBounds(expiration_date) ==
    LET days_left == calculate_days_until_expiration(expiration_date)
    IN IF days_left = {} THEN 0
       ELSE LET d == CHOOSE x \in days_left : TRUE
            IN IF d < 0 THEN 100
               ELSE IF d < 2 THEN 90 - d * 5
               ELSE IF d < 7 THEN 60 - (d - 2) * 5
               ELSE IF d < 14 THEN 30 - (d - 7) * 2
               ELSE 0

\* calculate_expiration_urgency, which the tests import from api.recommender
\* and the sources do not define: the piecewise schedule of the
\* specification (section 4.2), in hundredths, over the days the date
\* parser gives.
calculate_expiration_urgency(expiration_date) ==
    LET days_left == calculate_days_until_expiration(expiration_date)
    IN IF days_left = {} THEN 0
       ELSE LET d == CHOOSE x \in days_left : TRUE
            IN IF d < 0 THEN 100
               ELSE IF d <= 2 THEN 90 - d * 5
               ELSE IF d <= 7 THEN 60 - (d - 2) * 5
               ELSE IF d <= 14 THEN 30 - (d - 7) * 2
               ELSE 0

\* combined_score, which the tests import from api.recommender and the
\* sources do not define: the 0.7 / 0.3 weighting of the specification
\* (section 4.3), both arguments and the result on the ScoreUnit scale.
combined_score(coverage, expiration) == (7 * coverage + 3 * expiration) \div 10

----------------------------------------------------------------------------
(* Coverage *)

\* Faulty variant of calculate_coverage_and_missing: the rows that are not in the
\* inventory are the ones counted.
calculate_coverage_and_missing_CountsMissing(rows, inventory_keys) ==
    LET available == SelectMap(rows, [x \in AllIds |-> x \in inventory_keys],
                               [x \in AllIds |-> x])
        missing == SelectMap(rows, [x \in AllIds |-> x \notin inventory_keys],
                             [x \in AllIds |-> MissingName(x)])
    IN [coverage |-> IF Len(rows) > 0 THEN (Len(missing) * ScoreUnit) \div Len(rows)
                     ELSE 0,
        missing |-> missing,
        available |-> available]

\* Faulty variant of calculate_coverage_and_missing: the score is taken over the size
\* of the inventory instead of the size of the recipe.
calculate_coverage_and_missing_OverInventory(rows, inventory_keys) ==
    LET available == SelectMap(rows, [x \in AllIds |-> x \in inventory_keys],
                               [x \in AllIds |-> x])
        missing == SelectMap(rows, [x \in AllIds |-> x \notin inventory_keys],
                             [x \in AllIds |-> MissingName(x)])
    IN [coverage |-> IF Len(rows) > 0 /\ inventory_keys # {}
                     THEN (Len(available) * ScoreUnit) \div Cardinality(inventory_keys)
                     ELSE 0,
        missing |-> missing,
        available |-> available]

\* calculate_coverage_and_missing, on the rows of the recipe and the keys of
\* the inventory dict.
calculate_coverage_and_missing(rows, inventory_keys) ==
    IF Len(rows) = 0 THEN [coverage |-> 0, missing |-> << >>, available |-> << >>]
    ELSE LET total_ingredients == Len(rows)
             available == SelectMap(rows, [x \in AllIds |-> x \in inventory_keys],
                                    [x \in AllIds |-> x])
             missing == SelectMap(rows, [x \in AllIds |-> x \notin inventory_keys],
                                  [x \in AllIds |-> MissingName(x)])
             available_count == Len(available)
         IN [coverage |-> IF total_ingredients > 0
                          THEN (available_count * ScoreUnit) \div total_ingredients
                          ELSE 0,
             missing |-> missing,
             available |-> available]

----------------------------------------------------------------------------
(* Expiration bonus *)

\* Faulty variant of ItemBonus: the critical bracket ends before CRITICAL_DAYS.
ItemBonus_StrictCritical(ing_id, inv) ==
    IF ing_id \notin DOMAIN inv THEN 0
    ELSE LET days_left == inv[ing_id].days_until_expiration
         IN IF days_left = {} THEN 0
            ELSE LET d == CHOOSE x \in days_left : TRUE
                 IN IF d < CRITICAL_DAYS THEN CRITICAL_BONUS
                    ELSE IF d <= WARNING_DAYS THEN WARNING_BONUS
                    ELSE 0

\* Faulty variant of ItemBonus: an item past its date earns nothing.
ItemBonus_ExpiredUnrewarded(ing_id, inv) ==
    IF ing_id \notin DOMAIN inv THEN 0
    ELSE LET days_left == inv[ing_id].days_until_expiration
         IN IF days_left = {} THEN 0
            ELSE LET d == CHOOSE x \in days_left : TRUE
                 IN IF d < 0 THEN 0
                    ELSE IF d <= CRITICAL_DAYS THEN CRITICAL_BONUS
                    ELSE IF d <= WARNING_DAYS THEN WARNING_BONUS
                    ELSE 0

\* The step bonus of one available ingredient, in hundredths (lines 317-334).
ItemBonus(ing_id, inv) ==
    IF ing_id \notin DOMAIN inv THEN 0
    ELSE LET days_left == inv[ing_id].days_until_expiration
         IN IF days_left = {} THEN 0
            ELSE LET d == CHOOSE x \in days_left : TRUE
                 IN IF d <= CRITICAL_DAYS THEN CRITICAL_BONUS
                    ELSE IF d <= WARNING_DAYS THEN WARNING_BONUS
                    ELSE 0

\* Whether the ingredient is appended to expiring_items (lines 325-334).
IsExpiring(ing_id, inv) ==
    /\ ing_id \in DOMAIN inv
    /\ inv[ing_id].days_until_expiration # {}
    /\ \E d \in inv[ing_id].days_until_expiration : d <= WARNING_DAYS

ExpiringInfo(ing_id, inv) ==
    [name |-> inv[ing_id].name,
     expires_in_days |-> CHOOSE d \in inv[ing_id].days_until_expiration : TRUE]

calculate_expiration_bonus(available_ingredients, inv) ==
    LET bonus == SumSeq([i \in DOMAIN available_ingredients |->
                            ItemBonus(available_ingredients[i], inv)])
        expiring_items ==
            SelectMap(available_ingredients,
                      [x \in AllIds |-> IsExpiring(x, inv)],
                      [x \in AllIds |->
                          IF IsExpiring(x, inv) THEN ExpiringInfo(x, inv) ELSE << >>])
    IN [bonus |-> Min(bonus, MAX_BONUS), expiring_items |-> expiring_items]

----------------------------------------------------------------------------
(* Inventory mode: scoring *)

\* One entry of inventory_dict (lines 387-396); quantity and the raw date
\* string are never read again and are left out.
InventoryEntry(ing_id, expiration_date) ==
    [days_until_expiration |-> calculate_days_until_expiration(expiration_date),
     name |-> IF ing_id \in IngredientIds THEN IngredientName(ing_id) ELSE "Unknown"]

\* Faulty variant of PutItem: an ingredient id that has an entry keeps it.
PutItem_FirstWins(inv, ing_id, expiration_date) ==
    IF ing_id = 0 \/ ing_id \in DOMAIN inv THEN inv
    ELSE [k \in (DOMAIN inv) \cup {ing_id} |->
             IF k = ing_id THEN InventoryEntry(ing_id, expiration_date) ELSE inv[k]]

\* The body of "for item in inventory_items" (lines 384-396) for one item.
PutItem(inv, ing_id, expiration_date) ==
    IF ing_id = 0 THEN inv
    ELSE [k \in (DOMAIN inv) \cup {ing_id} |->
             IF k = ing_id THEN InventoryEntry(ing_id, expiration_date) ELSE inv[k]]

\* The loop "for item in inventory_items" (lines 383-396) over a whole list,
\* from the dict built so far.
RECURSIVE BuildInventory(_, _)
BuildInventory(inv, items) ==
    IF items = << >> THEN inv
    ELSE BuildInventory(PutItem(inv, Head(items).ingredient_id,
                                Head(items).expiration_date),
                        Tail(items))

\* The urgency of an item of inventory_dict, by the schedule of
\* calculate_expiration_urgency over the days the entry keeps.
ItemUrgency(entry) ==
    calculate_expiration_urgency(
        IF entry.days_until_expiration = {} THEN [kind |-> "null", day |-> 0]
        ELSE [kind |-> "iso",
              day |-> Today + (CHOOSE d \in entry.days_until_expiration : TRUE)])

\* The aggregate pantry urgency of the specification (section 4.2): the mean
\* urgency of the items, 0.0 for an empty pantry, on the ScoreUnit scale.
PantryUrgency(inv) ==
    LET ids == Ascending(DOMAIN inv)
    IN IF ids = << >> THEN 0
       ELSE (SumSeq([i \in DOMAIN ids |-> ItemUrgency(inv[ids[i]])]) * Hundredth)
            \div Len(ids)

\* The candidate built for one recipe (lines 404-430); total_score is on the
\* ScoreUnit scale.
ScoreRecipe(map, inv, recipe_id) ==
    LET cov == calculate_coverage_and_missing(RecipeRows(map, recipe_id), DOMAIN inv)
        exp == calculate_expiration_bonus(cov.available, inv)
    IN [recipe_id |-> recipe_id,
        coverage_score |-> cov.coverage,
        total_score |-> cov.coverage + exp.bonus * Hundredth,
        missing_ingredients |-> cov.missing,
        uses_expiring |-> exp.expiring_items,
        available_ingredients |-> cov.available]

\* Faulty variant of ScoreFrom: recipes of coverage 0 are not skipped.
RECURSIVE ScoreFrom_KeepsZeroCoverage(_, _, _)
ScoreFrom_KeepsZeroCoverage(map, inv, recipe_id) ==
    IF recipe_id > NumRecipes THEN << >>
    ELSE <<ScoreRecipe(map, inv, recipe_id)>>
         \o ScoreFrom_KeepsZeroCoverage(map, inv, recipe_id + 1)

\* The scoring loop over recipe_data in catalog order, skipping coverage 0
\* (lines 402-430).
RECURSIVE ScoreFrom(_, _, _)
ScoreFrom(map, inv, recipe_id) ==
    IF recipe_id > NumRecipes THEN << >>
    ELSE LET c == ScoreRecipe(map, inv, recipe_id)
         IN (IF c.coverage_score = 0 THEN << >> ELSE <<c>>)
            \o ScoreFrom(map, inv, recipe_id + 1)

\* The key of the sorts of lines 436 and 570, for each element of a list.
TotalScores(s) == [i \in DOMAIN s |-> s[i].total_score]

\* scored_recipes after the sort of line 436.
ScoredAndSorted(map, inv) ==
    LET scored == ScoreFrom(map, inv, 1)
    IN StableSortDesc(scored, TotalScores(scored))

----------------------------------------------------------------------------
(* Diversity selection *)

\* What the embedding and clustering calls of one selection do: encode
\* raises, fit_predict raises, or fit_predict labels the n candidates with
\* cluster ids in 0..k-1 (not every id need be used).
ClusterOutcomes(n, k) ==
    {[kind |-> e, labels |-> << >>] : e \in {"encode_error", "kmeans_error"}}
    \cup {[kind |-> "ok", labels |-> l] : l \in [1..n -> 0..(k - 1)]}

ClusterIndices(labels, cluster_id) == {i \in DOMAIN labels : labels[i] = cluster_id}

\* Faulty variant of BestIdx: the first index of the lowest key.
BestIdx_Lowest(indices, keys) ==
    CHOOSE i \in indices :
        \A j \in indices : keys[j] > keys[i] \/ (keys[j] = keys[i] /\ i <= j)

\* max(cluster_indices, key=...), with keys[i] the key of candidate i: the
\* first index of the highest key.
BestIdx(indices, keys) ==
    CHOOSE i \in indices :
        \A j \in indices : keys[j] < keys[i] \/ (keys[j] = keys[i] /\ i <= j)

\* One best candidate per populated cluster, in cluster-id order.
BestPerCluster(candidates, labels, n_clusters, keys) ==
    LET populated == Ascending({c \in 0..(n_clusters - 1) :
                                   ClusterIndices(labels, c) # {}})
    IN [p \in DOMAIN populated |->
           candidates[BestIdx(ClusterIndices(labels, populated[p]), keys)]]

\* Faulty variant of select_diverse_inventory_recipes: the fallback returns the
\* candidates without cutting them to n_recipes.
select_diverse_inventory_recipes_FallbackAll(candidates, n_recipes, outcome) ==
    IF Len(candidates) <= n_recipes
    THEN [result |-> candidates, raised |-> FALSE, encode |-> 0, kmeans |-> 0]
    ELSE IF outcome.kind = "encode_error"
    THEN [result |-> candidates, raised |-> FALSE, encode |-> 1, kmeans |-> 0]
    ELSE IF outcome.kind = "kmeans_error"
    THEN [result |-> candidates, raised |-> FALSE, encode |-> 1, kmeans |-> 1]
    ELSE LET n_clusters == Min(n_recipes, Len(candidates))
             selected == BestPerCluster(candidates, outcome.labels, n_clusters,
                                        TotalScores(candidates))
         IN [result |-> PyPrefix(StableSortDesc(selected, TotalScores(selected)),
                                 n_recipes),
             raised |-> FALSE, encode |-> 1, kmeans |-> 1]

\* Faulty variant of select_diverse_inventory_recipes: the selected candidates are
\* returned in cluster order, without the sort of line 570.
select_diverse_inventory_recipes_NoSort(candidates, n_recipes, outcome) ==
    IF Len(candidates) <= n_recipes
    THEN [result |-> candidates, raised |-> FALSE, encode |-> 0, kmeans |-> 0]
    ELSE IF outcome.kind = "encode_error"
    THEN [result |-> PyPrefix(candidates, n_recipes), raised |-> FALSE,
          encode |-> 1, kmeans |-> 0]
    ELSE IF outcome.kind = "kmeans_error"
    THEN [result |-> PyPrefix(candidates, n_recipes), raised |-> FALSE,
          encode |-> 1, kmeans |-> 1]
    ELSE LET n_clusters == Min(n_recipes, Len(candidates))
             selected == BestPerCluster(candidates, outcome.labels, n_clusters,
                                        TotalScores(candidates))
         IN [result |-> PyPrefix(selected, n_recipes),
             raised |-> FALSE, encode |-> 1, kmeans |-> 1]

\* select_diverse_inventory_recipes (lines 527-575).
select_diverse_inventory_recipes(candidates, n_recipes, outcome) ==
    IF Len(candidates) <= n_recipes
    THEN [result |-> candidates, raised |-> FALSE, encode |-> 0, kmeans |-> 0]
    ELSE IF outcome.kind = "encode_error"
    THEN [result |-> PyPrefix(candidates, n_recipes), raised |-> FALSE,
          encode |-> 1, kmeans |-> 0]
    ELSE IF outcome.kind = "kmeans_error"
    THEN [result |-> PyPrefix(candidates, n_recipes), raised |-> FALSE,
          encode |-> 1, kmeans |-> 1]
    ELSE LET n_clusters == Min(n_recipes, Len(candidates))
             selected == BestPerCluster(candidates, outcome.labels, n_clusters,
                                        TotalScores(candidates))
         IN [result |-> PyPrefix(StableSortDesc(selected, TotalScores(selected)),
                                 n_recipes),
             raised |-> FALSE, encode |-> 1, kmeans |-> 1]

\* The key of the sorts of lines 191 and 193, for each row of a frame.
Similarities(s) == [i \in DOMAIN s |-> s[i].similarity]

\* Faulty variant of select_diverse_recipes: the early return misses the case of
\* exactly n_meals rows.
select_diverse_recipes_StrictEarlyReturn(ranked_df, n_meals, outcome) ==
    IF Len(ranked_df) < n_meals
    THEN [result |-> ranked_df, raised |-> FALSE, encode |-> 0, kmeans |-> 0]
    ELSE IF outcome.kind = "encode_error"
    THEN [result |-> << >>, raised |-> TRUE, encode |-> 1, kmeans |-> 0]
    ELSE IF outcome.kind = "kmeans_error"
    THEN [result |-> << >>, raised |-> TRUE, encode |-> 1, kmeans |-> 1]
    ELSE LET n_clusters == Min(n_meals, Len(ranked_df))
         IN IF \E c \in 0..(n_clusters - 1) : ClusterIndices(outcome.labels, c) = {}
            THEN [result |-> << >>, raised |-> TRUE, encode |-> 1, kmeans |-> 1]
            ELSE LET selected == BestPerCluster(ranked_df, outcome.labels,
                                                n_clusters, Similarities(ranked_df))
                 IN [result |-> StableSortDesc(selected, Similarities(selected)),
                     raised |-> FALSE, encode |-> 1, kmeans |-> 1]

\* select_diverse_recipes (lines 177-193): no handler around the embedding
\* and clustering calls, and top_one.index[0] raises on an empty cluster.
select_diverse_recipes(ranked_df, n_meals, outcome) ==
    IF Len(ranked_df) <= n_meals
    THEN [result |-> ranked_df, raised |-> FALSE, encode |-> 0, kmeans |-> 0]
    ELSE IF outcome.kind = "encode_error"
    THEN [result |-> << >>, raised |-> TRUE, encode |-> 1, kmeans |-> 0]
    ELSE IF outcome.kind = "kmeans_error"
    THEN [result |-> << >>, raised |-> TRUE, encode |-> 1, kmeans |-> 1]
    ELSE LET n_clusters == Min(n_meals, Len(ranked_df))
         IN IF \E c \in 0..(n_clusters - 1) : ClusterIndices(outcome.labels, c) = {}
            THEN [result |-> << >>, raised |-> TRUE, encode |-> 1, kmeans |-> 1]
            ELSE LET selected == BestPerCluster(ranked_df, outcome.labels,
                                                n_clusters, Similarities(ranked_df))
                 IN [result |-> StableSortDesc(selected, Similarities(selected)),
                     raised |-> FALSE, encode |-> 1, kmeans |-> 1]

----------------------------------------------------------------------------
(* Preference filter *)

RecipeName(recipe_id) == <<"recipe", recipe_id>>

\* What the text-match service does: it raises, it answers without a text
\* (response.text is None, so that response.text.strip() raises), or it
\* answers with lines that, stripped and lower-cased, are the set
\* matched_names.
FilterResponses ==
    {[kind |-> k, matched_names |-> {}] : k \in {"error", "no_text"}}
    \cup {[kind |-> "text", matched_names |-> m] :
             m \in SUBSET ({RecipeName(r) : r \in RecipeIds} \cup {<<"other", 0>>})}

\* Faulty variant of filter_by_preferences: a failure of the service, or an
\* answer that names no candidate, leaves no candidate.
filter_by_preferences_FailClosed(recipes, response) ==
    IF recipes = << >> THEN recipes
    ELSE IF response.kind # "text" THEN << >>
    ELSE SelectMap(recipes,
                   [c \in {recipes[i] : i \in DOMAIN recipes} |->
                       RecipeName(c.recipe_id) \in response.matched_names],
                   [c \in {recipes[i] : i \in DOMAIN recipes} |-> c])

\* Faulty variant of filter_by_preferences: the candidates the answer names
\* are moved to the front and the others kept behind them.
filter_by_preferences_MatchedFirst(recipes, response) ==
    IF recipes = << >> THEN recipes
    ELSE IF response.kind # "text" THEN recipes
    ELSE SelectMap(recipes,
                   [c \in {recipes[i] : i \in DOMAIN recipes} |->
                       RecipeName(c.recipe_id) \in response.matched_names],
                   [c \in {recipes[i] : i \in DOMAIN recipes} |-> c])
         \o SelectMap(recipes,
                      [c \in {recipes[i] : i \in DOMAIN recipes} |->
                          RecipeName(c.recipe_id) \notin response.matched_names],
                      [c \in {recipes[i] : i \in DOMAIN recipes} |-> c])

\* filter_by_preferences (lines 488-524), for non-empty preferences: the
\* whole body is inside try, and except returns the list it was given.
filter_by_preferences(recipes, response) ==
    IF recipes = << >> THEN recipes
    ELSE IF response.kind # "text" THEN recipes
    ELSE LET filtered == SelectMap(recipes,
                             [c \in {recipes[i] : i \in DOMAIN recipes} |->
                                 RecipeName(c.recipe_id) \in response.matched_names],
                             [c \in {recipes[i] : i \in DOMAIN recipes} |-> c])
         IN IF filtered # << >> THEN filtered ELSE recipes

----------------------------------------------------------------------------
(* Reasoning text: generate_reasoning *)

\* A text is a list of tokens, each a pair <<string, number>>: a literal
\* piece of the f-strings, a number put in by formatting, or a name (names
\* are such pairs already).
Lit(text) == <<text, 0>>
Num(n) == <<"%d", n>>

\* sep.join(parts) for a list of texts.
RECURSIVE Join(_, _)
Join(parts, sep) ==
    IF parts = << >> THEN << >>
    ELSE IF Len(parts) = 1 THEN Head(parts)
    ELSE Head(parts) \o <<sep>> \o Join(Tail(parts), sep)

\* int(coverage_score * 100) (line 341): the percentage, cut towards zero.
CoveragePct(coverage_score) == (coverage_score * 100) \div ScoreUnit

\* Lines 344-349.
CoverageClause(coverage_pct) ==
    IF coverage_pct >= 100
    THEN <<Lit("You have all the ingredients needed")>>
    ELSE <<Lit("Uses "), Num(coverage_pct), Lit("% of required ingredients")>>

\* Faulty variant of ExpiringClause: every expiring item is named.
ExpiringClause_AllNames(expiring_items) ==
    LET expiring_names == [i \in DOMAIN expiring_items |-> <<expiring_items[i].name>>]
    IN IF expiring_items = << >> THEN << >>
       ELSE IF Len(expiring_items) = 1
            THEN <<<<Lit("Uses expiring ")>> \o expiring_names[1]>>
            ELSE <<<<Lit("Uses expiring ingredients: ")>>
                   \o Join(expiring_names, Lit(", "))>>

\* Lines 351-356: the parts the expiring items add, none or one.
ExpiringClause(expiring_items) ==
    LET shown == PyPrefix(expiring_items, 3)
        expiring_names == [i \in DOMAIN shown |-> <<shown[i].name>>]
    IN IF expiring_items = << >> THEN << >>
       ELSE IF Len(expiring_items) = 1
            THEN <<<<Lit("Uses expiring ")>> \o expiring_names[1]>>
            ELSE <<<<Lit("Uses expiring ingredients: ")>>
                   \o Join(expiring_names, Lit(", "))>>

\* Lines 358-362: the parts the missing ingredients add, none or one.
MissingClause(missing_ingredients) ==
    LET names == [i \in DOMAIN missing_ingredients |-> <<missing_ingredients[i]>>]
    IN IF missing_ingredients = << >> THEN << >>
       ELSE IF Len(missing_ingredients) <= 2
            THEN <<<<Lit("Missing: ")>> \o Join(names, Lit(", "))>>
            ELSE <<<<Lit("Missing "), Num(Len(missing_ingredients)),
                     Lit(" ingredients")>>>>

\* generate_reasoning (lines 339-364).
generate_reasoning(coverage_score, expiring_items, missing_ingredients) ==
    LET parts == <<CoverageClause(CoveragePct(coverage_score))>>
                 \o ExpiringClause(expiring_items)
                 \o MissingClause(missing_ingredients)
    IN Join(parts, Lit(". ")) \o <<Lit(".")>>

----------------------------------------------------------------------------
(* Inventory mode: recommend_from_inventory *)

\* round(x, 2) of a score on the ScoreUnit scale, in hundredths (half to even).
Round2(score) ==
    LET q == score \div Hundredth
        r == score % Hundredth
    IN IF 2 * r > Hundredth THEN q + 1
       ELSE IF 2 * r < Hundredth THEN q
       ELSE IF q % 2 = 0 THEN q ELSE q + 1

\* One entry of the returned list (lines 459-468).
Recommendation(recipe) ==
    [recipe_id |-> recipe.recipe_id,
     coverage_score |-> Round2(recipe.coverage_score),
     missing_ingredients |-> recipe.missing_ingredients,
     uses_expiring |-> recipe.uses_expiring,
     reasoning |-> generate_reasoning(recipe.coverage_score, recipe.uses_expiring,
                                      recipe.missing_ingredients)]

\* The catalogs the Recipe-Ingredient_Map table holds in the model: a recipe
\* requires nothing, one ingredient, all the others, or all of them.
RequiredChoices == {{}, {1}, IngredientIds \ {1}, IngredientIds}
Catalogs == [RecipeIds -> RequiredChoices]

NoUnit == [op |-> "none"]

\* No endpoint was called: the engine functions are called directly.
NoRequest == [endpoint |-> "none"]
NoStatus == [code |-> 0, detail |-> ""]

\* The goal-expansion calls of a goal-mode call that has not been made.
NoGoal == [service |-> "none", nutri_goal |-> "", exp_goal |-> ""]

\* The functions under @lru_cache() (lines 31-95 and 226-235).
Loaders == {"load_supabase", "load_recipe_data", "load_embedder",
            "load_gemini_client", "load_recipe_ingredient_map"}

\* The loaders whose body calls load_supabase() first (lines 41 and 229).
DataLoaders == {"load_recipe_data", "load_recipe_ingredient_map"}

\* The object the n-th run of a loader's body returns.
Handle(loader, n) == <<loader, n>>

\* The caches when the module has been imported: line 121 has called
\* load_gemini_client() once, nothing else is loaded.
ImportRuns == [l \in Loaders |-> IF l = "load_gemini_client" THEN 1 ELSE 0]
ColdCache ==
    [l \in Loaders |-> IF l = "load_gemini_client" THEN {Handle(l, 1)} ELSE {}]

\* A call of a loader that no other thread interleaves with: on a miss the
\* body runs, calling load_supabase() first if it is a data loader, and its
\* result is stored.  mem is the pair of the caches and the run counts.
CallLoader(mem, loader) ==
    IF mem.cache[loader] # {} THEN mem
    ELSE LET nested == IF loader \in DataLoaders /\ mem.cache["load_supabase"] = {}
                       THEN {"load_supabase"} ELSE {}
             called == nested \cup {loader}
         IN [cache |-> [l \in Loaders |->
                           IF l \in called THEN {Handle(l, mem.bodyRuns[l] + 1)}
                           ELSE mem.cache[l]],
             bodyRuns |-> [l \in Loaders |->
                              IF l \in called THEN mem.bodyRuns[l] + 1
                              ELSE mem.bodyRuns[l]]]

\* Several such calls one after the other.
RECURSIVE CallLoaders(_, _)
CallLoaders(mem, loaders) ==
    IF loaders = << >> THEN mem
    ELSE CallLoaders(CallLoader(mem, Head(loaders)), Tail(loaders))

\* The columns of the frame load_recipe_data returns (lines 44-81), and the
\* column get_recipe_embeddings adds to the frame it is given (lines 112-113).
BaseColumns == {"id", "name", "description", "tags", "ingredients"}
TextColumn == "recipe_text"

\* The request threads, none of them in a loader call.
Threads == 1..NumThreads
NoThreads ==
    [t \in Threads |->
        [pc |-> "idle", loader |-> "none", run |-> 0, inner |-> 0, result |-> {}]]

Init ==
    /\ recipe_ing_map = << >>
    /\ pc = "idle"
    /\ inventory_dict = << >>
    /\ scored_recipes = << >>
    /\ num_recipes = 0
    /\ diverse_recipes = << >>
    /\ path = "none"
    /\ recommendations = << >>
    /\ summary = ""
    /\ ranked = << >>
    /\ meal_plan = << >>
    /\ raised = FALSE
    /\ encodeCalls = 0
    /\ kmeansCalls = 0
    /\ filterResponse = "none"
    /\ request = NoRequest
    /\ status = NoStatus
    /\ invoked = "none"
    /\ goal = NoGoal
    /\ cache = ColdCache
    /\ bodyRuns = ImportRuns
    /\ catalogColumns = BaseColumns
    /\ threads = NoThreads
    /\ unit = NoUnit

\* Entry of recommend_from_inventory (lines 379-383): the memoized tables are
\* loaded and the inventory dict starts empty.
StartInventory(map) ==
    /\ pc = "idle"
    /\ recipe_ing_map' = map
    /\ pc' = "items"
    /\ LET mem == CallLoaders([cache |-> cache, bodyRuns |-> bodyRuns],
                              <<"load_recipe_data", "load_recipe_ingredient_map">>)
       IN cache' = mem.cache /\ bodyRuns' = mem.bodyRuns
    /\ UNCHANGED <<inventory_dict, scored_recipes, num_recipes, diverse_recipes, path,
                   recommendations, summary, ranked, meal_plan, raised, encodeCalls,
                   kmeansCalls, unit,
                   filterResponse, request, status, invoked,
                   goal, catalogColumns, threads>>

\* One iteration of the loop over inventory_items (lines 384-396).
AddItem(ing_id, expiration_date) ==
    /\ pc = "items"
    /\ inventory_dict' = PutItem(inventory_dict, ing_id, expiration_date)
    /\ UNCHANGED <<recipe_ing_map, pc, scored_recipes, num_recipes, diverse_recipes,
                   path, recommendations, summary, ranked, meal_plan, raised,
                   encodeCalls, kmeansCalls, unit,
                   filterResponse, request, status, invoked,
                   goal, cache, bodyRuns, catalogColumns, threads>>

\* Faulty variant of ScoreRecipes: the check of line 398 is missing, so an
\* empty inventory goes through the scoring loop.
ScoreRecipes_NoEarlyReturn ==
    /\ pc = "items"
    /\ LET sorted == ScoredAndSorted(recipe_ing_map, inventory_dict)
       IN IF sorted = << >>
          THEN /\ summary' = "No recipes found matching your inventory."
               /\ path' = "no_match"
               /\ pc' = "done"
               /\ UNCHANGED scored_recipes
          ELSE /\ scored_recipes' = sorted
               /\ pc' = "filter"
               /\ UNCHANGED <<summary, path>>
    /\ UNCHANGED <<recipe_ing_map, inventory_dict, num_recipes, diverse_recipes,
                   recommendations, ranked, meal_plan, raised, encodeCalls,
                   kmeansCalls, unit, filterResponse, request, status, invoked,
                   goal, cache, bodyRuns, catalogColumns, threads>>

\* End of the item loop: the two early returns, the scoring loop and the
\* sort (lines 398-436).
ScoreRecipes ==
    /\ pc = "items"
    /\ IF DOMAIN inventory_dict = {}
       THEN /\ summary' = "No valid inventory items provided."
            /\ path' = "no_inventory"
            /\ pc' = "done"
            /\ UNCHANGED scored_recipes
       ELSE LET sorted == ScoredAndSorted(recipe_ing_map, inventory_dict)
            IN IF sorted = << >>
               THEN /\ summary' = "No recipes found matching your inventory."
                    /\ path' = "no_match"
                    /\ pc' = "done"
                    /\ UNCHANGED scored_recipes
               ELSE /\ scored_recipes' = sorted
                    /\ pc' = "filter"
                    /\ UNCHANGED <<summary, path>>
    /\ UNCHANGED <<recipe_ing_map, inventory_dict, num_recipes, diverse_recipes,
                   recommendations, ranked, meal_plan, raised, encodeCalls,
                   kmeansCalls, unit,
                   filterResponse, request, status, invoked,
                   goal, cache, bodyRuns, catalogColumns, threads>>

\* Line 439 with preferences None or empty: the filter is not called.
SkipFilter ==
    /\ pc = "filter"
    /\ pc' = "select"
    /\ UNCHANGED <<recipe_ing_map, inventory_dict, scored_recipes, num_recipes,
                   diverse_recipes, path, recommendations, summary, ranked, meal_plan,
                   raised, encodeCalls, kmeansCalls, unit,
                   filterResponse, request, status, invoked,
                   goal, cache, bodyRuns, catalogColumns, threads>>

\* How the call of the text-match service ended: "raised" when the try block
\* was left by an exception (the service raised, or its answer had no text),
\* "no_match" for a text that names none of the candidates, else "text".
ResponseKind(recipes, response) ==
    IF response.kind # "text" THEN "raised"
    ELSE IF \A i \in DOMAIN recipes :
                RecipeName(recipes[i].recipe_id) \notin response.matched_names
         THEN "no_match"
         ELSE "text"

\* Lines 439-440 with preferences given.
FilterByPreferences(response) ==
    /\ pc = "filter"
    /\ scored_recipes' = filter_by_preferences(scored_recipes, response)
    /\ filterResponse' = ResponseKind(scored_recipes, response)
    /\ pc' = "select"
    /\ UNCHANGED <<recipe_ing_map, inventory_dict, num_recipes, diverse_recipes, path,
                   recommendations, summary, ranked, meal_plan, raised, encodeCalls,
                   kmeansCalls, unit, request, status, invoked,
                   goal, cache, bodyRuns, catalogColumns, threads>>

\* Lines 442-485: diversity selection or truncation, then the answer.
SelectAndBuild(n, outcome) ==
    /\ pc = "select"
    /\ LET top_candidates == PyPrefix(scored_recipes,
                                      Min(TopCandidates, Len(scored_recipes)))
           clustering == Len(top_candidates) >= n /\ Len(top_candidates) > n
           sel == select_diverse_inventory_recipes(top_candidates, n, outcome)
           chosen == IF clustering THEN sel.result ELSE PyPrefix(top_candidates, n)
       IN /\ clustering => outcome \in ClusterOutcomes(Len(top_candidates), n)
          /\ ~clustering => outcome = [kind |-> "encode_error", labels |-> << >>]
          /\ num_recipes' = n
          /\ diverse_recipes' = chosen
          /\ path' = IF ~clustering THEN "truncate"
                     ELSE IF outcome.kind = "ok" THEN "cluster" ELSE "fallback"
          /\ encodeCalls' = IF clustering THEN sel.encode ELSE 0
          /\ kmeansCalls' = IF clustering THEN sel.kmeans ELSE 0
          /\ recommendations' = [i \in DOMAIN chosen |-> Recommendation(chosen[i])]
          /\ LET mem == CallLoaders([cache |-> cache, bodyRuns |-> bodyRuns],
                                    IF clustering THEN <<"load_embedder">> ELSE << >>)
             IN cache' = mem.cache /\ bodyRuns' = mem.bodyRuns
    /\ summary' = "Found"
    /\ pc' = "done"
    /\ UNCHANGED <<recipe_ing_map, inventory_dict, scored_recipes, ranked, meal_plan,
                   raised, unit,
                   filterResponse, request, status, invoked,
                   goal, catalogColumns, threads>>

----------------------------------------------------------------------------
(* Goal mode: create_meal_plan *)

TOP_K == 20

\* The orders sort_values(by="similarity", ascending=False) can give the
\* catalog: descending, with recipes of equal similarity in any order.
DescOrders(sim) ==
    {o \in [1..NumRecipes -> RecipeIds] :
        /\ \A i, j \in 1..NumRecipes : i # j => o[i] # o[j]
        /\ \A i \in 1..(NumRecipes - 1) : sim[o[i]] >= sim[o[i + 1]]}

\* rank_recipes_by_goal (lines 162-174): the top_k rows of the sorted catalog.
rank_recipes_by_goal(sim, order, top_k) ==
    PyPrefix([i \in 1..NumRecipes |->
                 [recipe_id |-> order[i], similarity |-> sim[order[i]]]], top_k)

\* One entry of meal_plan (lines 203-217).
Meal(i, row) ==
    [meal_number |-> i, recipe_id |-> row.recipe_id, similarity_score |-> row.similarity]

\* What the language-model service does in one goal-mode call: the call of
\* nutrition_goal raises, the call of expand_goal raises, or each call
\* answers with a text of its own.
GoalTexts == {"targets A", "targets B"}
GoalServices ==
    {[kind |-> k, nutri_goal |-> "", exp_goal |-> ""] : k \in {"nutrition_goal_error"}}
    \cup {[kind |-> "expand_goal_error", nutri_goal |-> a, exp_goal |-> ""] :
              a \in GoalTexts}
    \cup {[kind |-> "ok", nutri_goal |-> a, exp_goal |-> b] :
              a \in GoalTexts, b \in GoalTexts}

\* create_meal_plan (lines 197-220): rank_recipes_by_goal, with the loads
\* and the recipe_text column of get_recipe_embeddings before the call of
\* nutrition_goal, then select_diverse_recipes, then expand_goal.
CreateMealPlan(sim, order, n_meals, outcome, goal_service) ==
    /\ pc = "idle"
    /\ order \in DescOrders(sim)
    /\ LET rk == rank_recipes_by_goal(sim, order, TOP_K)
           clustering == Len(rk) > n_meals
           sel == select_diverse_recipes(rk, n_meals, outcome)
           mem == CallLoaders([cache |-> cache, bodyRuns |-> bodyRuns],
                              <<"load_recipe_data", "load_embedder">>)
       IN /\ cache' = mem.cache /\ bodyRuns' = mem.bodyRuns
          /\ catalogColumns' = catalogColumns \cup {TextColumn}
          /\ IF goal_service.kind = "nutrition_goal_error"
             THEN /\ outcome = [kind |-> "encode_error", labels |-> << >>]
                  /\ raised' = TRUE
                  /\ path' = "goal_raised"
                  /\ goal' = [service |-> goal_service.kind, nutri_goal |-> "",
                              exp_goal |-> ""]
                  /\ UNCHANGED <<ranked, meal_plan, encodeCalls, kmeansCalls>>
             ELSE /\ clustering => outcome \in ClusterOutcomes(Len(rk), n_meals)
                  /\ ~clustering => outcome = [kind |-> "encode_error", labels |-> << >>]
                  /\ ranked' = rk
                  /\ encodeCalls' = sel.encode
                  /\ kmeansCalls' = sel.kmeans
                  /\ raised' = (sel.raised \/ goal_service.kind = "expand_goal_error")
                  /\ meal_plan' = IF raised' THEN << >>
                                  ELSE [i \in DOMAIN sel.result |->
                                           Meal(i, sel.result[i])]
                  /\ path' = IF sel.raised THEN "goal_raised"
                             ELSE IF clustering THEN "goal_cluster" ELSE "goal_all"
                  /\ goal' = [service |-> IF sel.raised THEN "not_reached"
                                          ELSE goal_service.kind,
                              nutri_goal |-> goal_service.nutri_goal,
                              exp_goal |-> IF raised' THEN ""
                                           ELSE goal_service.exp_goal]
    /\ num_recipes' = n_meals
    /\ pc' = "done"
    /\ UNCHANGED <<recipe_ing_map, inventory_dict, scored_recipes, diverse_recipes,
                   recommendations, summary, unit, filterResponse, request, status,
                   invoked, threads>>

----------------------------------------------------------------------------

\* The inputs of each step are enumerated only where the step is enabled.
Next ==
    \/ pc = "idle" /\ \E map \in Catalogs : StartInventory(map)
    \/ pc = "items" /\ \E ing_id \in 0..NumIngredients, d \in RequestDates :
                          AddItem(ing_id, d)
    \/ ScoreRecipes
    \/ SkipFilter
    \/ pc = "filter" /\ \E response \in FilterResponses : FilterByPreferences(response)
    \/ pc = "select" /\ \E n \in 1..MaxNum :
          \E outcome \in ClusterOutcomes(Min(TopCandidates, Len(scored_recipes)), n) :
              SelectAndBuild(n, outcome)
    \/ pc = "idle" /\ \E sim \in [RecipeIds -> 0..MaxSim], n_meals \in 1..MaxNum :
          \E order \in DescOrders(sim), outcome \in ClusterOutcomes(NumRecipes, n_meals),
             goal_service \in GoalServices :
              CreateMealPlan(sim, order, n_meals, outcome, goal_service)

Spec == Init /\ [][Next]_vars

----------------------------------------------------------------------------
(* The endpoints of api/index.py in front of the two engine functions *)

\* The upper limit of num_recipes in inventory_recommend (index.py line 125).
NumRecipesLimit == 20

\* The meal counts recommend_meals admits (index.py line 52).
MealCounts == {3, 5, 7}

\* Request bodies that pass the type validation of the request models.  An
\* inventory lists its items by ascending ingredient id, each id once.
ApiItems ==
    [ingredient_id : 0..2,
     expiration_date : {[kind |-> "null", day |-> 0], [kind |-> "iso", day |-> Today - 1]}]

ApiInventories ==
    {<< >>} \cup {<<a>> : a \in ApiItems}
    \cup {<<a, b>> : a \in ApiItems, b \in {x \in ApiItems : x.ingredient_id = 2}}

InventoryRequests ==
    [endpoint : {"inventory-recommend"},
     inventory : {l \in ApiInventories :
                     Len(l) = 2 => l[1].ingredient_id < l[2].ingredient_id},
     preferences : {"none", "given"},
     num_recipes : {-1, 0, 1, 2, 10, 11, 15, NumRecipesLimit, NumRecipesLimit + 1}]

MealRequests ==
    [endpoint : {"recommender"},
     goal : {"", " ", "high protein"},
     num_meals : 2..8]

\* Faulty variant of inventory_recommend: the count is not validated.
inventory_recommend_NoCountCheck(req) ==
    /\ pc = "endpoint"
    /\ request' = req
    /\ IF req.inventory = << >>
       THEN /\ status' = [code |-> 400, detail |-> "Inventory cannot be empty"]
            /\ pc' = "responded"
            /\ UNCHANGED invoked
       ELSE /\ invoked' = "recommend_from_inventory"
            /\ pc' = "idle"
            /\ UNCHANGED status
    /\ UNCHANGED <<recipe_ing_map, inventory_dict, scored_recipes, num_recipes,
                   diverse_recipes, path, recommendations, summary, ranked, meal_plan,
                   raised, encodeCalls, kmeansCalls, unit, filterResponse,
                   goal, cache, bodyRuns, catalogColumns, threads>>

\* inventory_recommend (index.py lines 108-146) up to the call of
\* recommend_from_inventory: the two validations, each answering 400.
inventory_recommend(req) ==
    /\ pc = "endpoint"
    /\ request' = req
    /\ IF req.inventory = << >>
       THEN /\ status' = [code |-> 400, detail |-> "Inventory cannot be empty"]
            /\ pc' = "responded"
            /\ UNCHANGED invoked
       ELSE IF req.num_recipes < 1 \/ req.num_recipes > NumRecipesLimit
       THEN /\ status' = [code |-> 400,
                          detail |-> "numRecipes must be between 1 and 20"]
            /\ pc' = "responded"
            /\ UNCHANGED invoked
       ELSE /\ invoked' = "recommend_from_inventory"
            /\ pc' = "idle"
            /\ UNCHANGED status
    /\ UNCHANGED <<recipe_ing_map, inventory_dict, scored_recipes, num_recipes,
                   diverse_recipes, path, recommendations, summary, ranked, meal_plan,
                   raised, encodeCalls, kmeansCalls, unit, filterResponse,
                   goal, cache, bodyRuns, catalogColumns, threads>>

\* recommend_meals (index.py lines 44-58) up to the call of create_meal_plan.
recommend_meals(req) ==
    /\ pc = "endpoint"
    /\ request' = req
    /\ IF req.goal \in {"", " "}
       THEN /\ status' = [code |-> 400, detail |-> "Goal cannot be empty"]
            /\ pc' = "responded"
            /\ UNCHANGED invoked
       ELSE IF req.num_meals \notin MealCounts
       THEN /\ status' = [code |-> 400,
                          detail |-> "numMeals must be one of 3, 5, or 7"]
            /\ pc' = "responded"
            /\ UNCHANGED invoked
       ELSE /\ invoked' = "create_meal_plan"
            /\ pc' = "idle"
            /\ UNCHANGED status
    /\ UNCHANGED <<recipe_ing_map, inventory_dict, scored_recipes, num_recipes,
                   diverse_recipes, path, recommendations, summary, ranked, meal_plan,
                   raised, encodeCalls, kmeansCalls, unit, filterResponse,
                   goal, cache, bodyRuns, catalogColumns, threads>>

\* The engine function returned or raised: the endpoint answers (index.py
\* lines 58 and 146; an exception leaves the handler and gives a 500).
Respond ==
    /\ pc = "done" /\ invoked # "none"
    /\ status' = IF raised THEN [code |-> 500, detail |-> "Internal Server Error"]
                 ELSE [code |-> 200, detail |-> ""]
    /\ pc' = "responded"
    /\ UNCHANGED <<recipe_ing_map, inventory_dict, scored_recipes, num_recipes,
                   diverse_recipes, path, recommendations, summary, ranked, meal_plan,
                   raised, encodeCalls, kmeansCalls, unit, filterResponse, request,
                   invoked,
                   goal, cache, bodyRuns, catalogColumns, threads>>

\* The item of the request the loop of lines 384-396 may take next.
ItemPending(item) ==
    item.ingredient_id = 0 \/ item.ingredient_id \notin DOMAIN inventory_dict

InitApi ==
    /\ recipe_ing_map = << >>
    /\ pc = "endpoint"
    /\ inventory_dict = << >>
    /\ scored_recipes = << >>
    /\ num_recipes = 0
    /\ diverse_recipes = << >>
    /\ path = "none"
    /\ recommendations = << >>
    /\ summary = ""
    /\ ranked = << >>
    /\ meal_plan = << >>
    /\ raised = FALSE
    /\ encodeCalls = 0
    /\ kmeansCalls = 0
    /\ unit = NoUnit
    /\ filterResponse = "none"
    /\ request = NoRequest
    /\ status = NoStatus
    /\ invoked = "none"
    /\ goal = NoGoal
    /\ cache = ColdCache
    /\ bodyRuns = ImportRuns
    /\ catalogColumns = BaseColumns
    /\ threads = NoThreads

\* The outcomes of the services a selection over len candidates can meet;
\* no service is called when there is nothing to cluster.
SelectionOutcomes(len, n) ==
    IF len > n THEN ClusterOutcomes(len, n)
    ELSE {[kind |-> "encode_error", labels |-> << >>]}

\* A request goes through its endpoint and, when admitted, through the
\* engine function with the arguments the endpoint passes on.
NextApi ==
    \/ pc = "endpoint" /\ \E req \in InventoryRequests : inventory_recommend(req)
    \/ pc = "endpoint" /\ \E req \in MealRequests : recommend_meals(req)
    \/ pc = "idle" /\ invoked = "recommend_from_inventory"
          /\ \E map \in Catalogs : StartInventory(map)
    \/ pc = "items" /\ \E i \in DOMAIN request.inventory :
          /\ ItemPending(request.inventory[i])
          /\ AddItem(request.inventory[i].ingredient_id,
                     request.inventory[i].expiration_date)
    \/ pc = "items" /\ (\A i \in DOMAIN request.inventory :
                            request.inventory[i].ingredient_id \in
                                {0} \cup DOMAIN inventory_dict)
          /\ ScoreRecipes
    \/ pc = "filter" /\ request.preferences = "none" /\ SkipFilter
    \/ pc = "filter" /\ request.preferences = "given"
          /\ \E response \in FilterResponses : FilterByPreferences(response)
    \/ pc = "select"
          /\ \E outcome \in SelectionOutcomes(Min(TopCandidates, Len(scored_recipes)),
                                               request.num_recipes) :
                 SelectAndBuild(request.num_recipes, outcome)
    \/ pc = "idle" /\ invoked = "create_meal_plan"
          /\ \E sim \in [RecipeIds -> 0..MaxSim] :
                 \E order \in DescOrders(sim),
                    outcome \in SelectionOutcomes(Min(TOP_K, NumRecipes),
                                                  request.num_meals),
                    goal_service \in GoalServices :
                     CreateMealPlan(sim, order, request.num_meals, outcome, goal_service)
    \/ Respond

SpecApi == InitApi /\ [][NextApi]_vars

----------------------------------------------------------------------------
(* The pure functions called on their own.  unit holds the arguments of one *)
(* call and, once the call is made, its result.                             *)

\* Every inventory dict over the ingredient table, with every kind of date.
Pantries ==
    UNION {[keys -> {InventoryEntry(1, d) : d \in DateInputs}] :
              keys \in SUBSET IngredientIds}

PantryOf(entries) ==
    [k \in DOMAIN entries |->
        [days_until_expiration |-> entries[k].days_until_expiration,
         name |-> IngredientName(k)]]

\* Candidate lists as the callers hand them over: in non-increasing score
\* order, at most one per recipe.
CandidateLists ==
    UNION {{[i \in 1..len |-> [recipe_id |-> i, total_score |-> sc[i],
                               similarity |-> sc[i]]] :
               sc \in {f \in [1..len -> 0..MaxSim] :
                          \A i \in 1..(len - 1) : f[i] >= f[i + 1]}} :
           len \in 0..NumRecipes}

\* The scores k/n a recipe of n rows can have.
CoverageValues ==
    {(k * ScoreUnit) \div n : k \in 0..(NumIngredients + ExtraIds),
                              n \in 1..(NumIngredients + ExtraIds)}
    \cap 0..ScoreUnit

\* Lists of expiring items and of missing names as the scoring loop builds
\* them, one entry per ingredient.
ExpiringList(S) ==
    LET ids == Ascending(S)
    IN [i \in DOMAIN ids |-> [name |-> IngredientName(ids[i]), expires_in_days |-> 1]]

MissingList(S) ==
    LET ids == Ascending(S)
    IN [i \in DOMAIN ids |-> MissingName(ids[i])]

\* The dates one item is examined with: none, an empty or unparseable
\* string, and every day from two days ago to MaxDays days ahead.
ExaminedDates ==
    {[kind |-> k, day |-> 0] : k \in {"null", "empty", "malformed"}}
    \cup {[kind |-> "iso", day |-> Today + d] : d \in (-2)..MaxDays}

\* Inventories with repeated ingredient ids: up to MaxItems items over the
\* ingredients 1 and 2, with no date, a date passed yesterday, a date 5 days
\* ahead or a date 10 days ahead; and catalogs whose recipes need one or
\* both of these ingredients.
SubmittedDates ==
    {[kind |-> "null", day |-> 0]}
    \cup {[kind |-> "iso", day |-> Today + d] : d \in {-1, 5, 10}}
SubmittedItems ==
    [ingredient_id : {1, 2}, expiration_date : SubmittedDates]
SubmittedInventories ==
    UNION {[1..len -> SubmittedItems] : len \in 1..MaxItems}
SmallCatalogs == [RecipeIds -> {{1}, {2}, {1, 2}}]

InitUnit ==
    /\ recipe_ing_map = << >>
    /\ pc = "unit"
    /\ inventory_dict = << >>
    /\ scored_recipes = << >>
    /\ num_recipes = 0
    /\ diverse_recipes = << >>
    /\ path = "none"
    /\ recommendations = << >>
    /\ summary = ""
    /\ ranked = << >>
    /\ meal_plan = << >>
    /\ raised = FALSE
    /\ encodeCalls = 0
    /\ kmeansCalls = 0
    /\ filterResponse = "none"
    /\ request = NoRequest
    /\ status = NoStatus
    /\ invoked = "none"
    /\ goal = NoGoal
    /\ cache = ColdCache
    /\ bodyRuns = ImportRuns
    /\ catalogColumns = BaseColumns
    /\ threads = NoThreads
    /\ \/ \E required \in SUBSET AllIds, keys \in SUBSET AllIds :
             unit = [op |-> "coverage", done |-> FALSE, required |-> required,
                     keys |-> keys, coverage |-> 0, missing |-> << >>,
                     available |-> << >>, added |-> {}, before |-> 0]
       \/ \E available \in SUBSET IngredientIds, entries \in Pantries :
             unit = [op |-> "bonus", done |-> FALSE,
                     available |-> Ascending(available), inv |-> PantryOf(entries),
                     bonus |-> 0, expiring_items |-> << >>]
       \/ \E candidates \in CandidateLists, target_count \in 1..MaxNum,
             selector \in {"goal", "inventory"} :
             \E outcome \in ClusterOutcomes(Len(candidates), target_count) :
                unit = [op |-> "select", done |-> FALSE, selector |-> selector,
                        candidates |-> candidates, target_count |-> target_count,
                        outcome |-> outcome, result |-> << >>, twice |-> FALSE,
                        second |-> << >>]
       \/ \E expiration_date \in ExaminedDates :
             unit = [op |-> "date", done |-> FALSE, expiration_date |-> expiration_date,
                     days_left |-> {}, urgency |-> 0, bonus |-> 0,
                     expiring_items |-> << >>, earlier |-> {}, before |-> 0]
       \/ \E coverage_score \in CoverageValues, expiring \in SUBSET AllIds,
             missing \in SUBSET IngredientIds :
             unit = [op |-> "reasoning", done |-> FALSE,
                     coverage_score |-> coverage_score,
                     expiring_items |-> ExpiringList(expiring),
                     missing_ingredients |-> MissingList(missing),
                     reasoning |-> << >>]
       \/ \E items \in SubmittedInventories, map \in SmallCatalogs :
             unit = [op |-> "pantry", done |-> FALSE, items |-> items, map |-> map,
                     inv |-> << >>, scored |-> << >>]

UnitFrame == UNCHANGED <<recipe_ing_map, pc, inventory_dict, scored_recipes, num_recipes,
                         diverse_recipes, path, recommendations, summary, ranked,
                         meal_plan, filterResponse, request, status, invoked,
                         goal, cache, bodyRuns, catalogColumns, threads>>

\* A call of calculate_coverage_and_missing.
CallCoverage ==
    /\ unit.op = "coverage" /\ ~unit.done
    /\ LET r == calculate_coverage_and_missing(Ascending(unit.required), unit.keys)
       IN unit' = [unit EXCEPT !.done = TRUE, !.coverage = r.coverage,
                               !.missing = r.missing, !.available = r.available]
    /\ UNCHANGED <<raised, encodeCalls, kmeansCalls>>
    /\ UnitFrame

\* The same recipe scored again after one more item was put in the pantry;
\* before keeps the score of the call before.
CallCoverageWithItem(ing_id) ==
    /\ unit.op = "coverage" /\ unit.done
    /\ ing_id \notin unit.keys
    /\ LET keys == unit.keys \cup {ing_id}
           r == calculate_coverage_and_missing(Ascending(unit.required), keys)
       IN unit' = [unit EXCEPT !.keys = keys, !.coverage = r.coverage,
                               !.missing = r.missing, !.available = r.available,
                               !.added = {ing_id}, !.before = unit.coverage]
    /\ UNCHANGED <<raised, encodeCalls, kmeansCalls>>
    /\ UnitFrame

\* A call of calculate_expiration_bonus.
CallBonus ==
    /\ unit.op = "bonus" /\ ~unit.done
    /\ LET r == calculate_expiration_bonus(unit.available, unit.inv)
       IN unit' = [unit EXCEPT !.done = TRUE, !.bonus = r.bonus,
                               !.expiring_items = r.expiring_items]
    /\ UNCHANGED <<raised, encodeCalls, kmeansCalls>>
    /\ UnitFrame

\* What each function gives for an item with the date under examination.
DateResults(expiration_date) ==
    LET inv == PutItem(<< >>, 1, expiration_date)
        exp == calculate_expiration_bonus(<<1>>, inv)
    IN [days_left |-> calculate_days_until_expiration(expiration_date),
        urgency |-> calculate_expiration_urgency(expiration_date),
        bonus |-> exp.bonus,
        expiring_items |-> exp.expiring_items]

\* The date goes through calculate_days_until_expiration and
\* calculate_expiration_urgency, and an item with it through
\* calculate_expiration_bonus.
CallWithDate ==
    /\ unit.op = "date" /\ ~unit.done
    /\ LET r == DateResults(unit.expiration_date)
       IN unit' = [unit EXCEPT !.done = TRUE, !.days_left = r.days_left,
                               !.urgency = r.urgency, !.bonus = r.bonus,
                               !.expiring_items = r.expiring_items]
    /\ UNCHANGED <<raised, encodeCalls, kmeansCalls>>
    /\ UnitFrame

\* The same with a later date; earlier and before keep the day and the
\* urgency of the call before.
CallWithLaterDate(later) ==
    /\ unit.op = "date" /\ unit.done /\ unit.earlier = {}
    /\ unit.expiration_date.kind = "iso" /\ later.kind = "iso"
    /\ later.day > unit.expiration_date.day
    /\ LET r == DateResults(later)
       IN unit' = [unit EXCEPT !.expiration_date = later, !.days_left = r.days_left,
                               !.urgency = r.urgency, !.bonus = r.bonus,
                               !.expiring_items = r.expiring_items,
                               !.earlier = unit.days_left, !.before = unit.urgency]
    /\ UNCHANGED <<raised, encodeCalls, kmeansCalls>>
    /\ UnitFrame

\* A call of generate_reasoning.
CallReasoning ==
    /\ unit.op = "reasoning" /\ ~unit.done
    /\ unit' = [unit EXCEPT !.done = TRUE,
                            !.reasoning = generate_reasoning(unit.coverage_score,
                                                             unit.expiring_items,
                                                             unit.missing_ingredients)]
    /\ UNCHANGED <<raised, encodeCalls, kmeansCalls>>
    /\ UnitFrame

\* A call of select_diverse_recipes.
CallSelectGoal ==
    /\ unit.op = "select" /\ ~unit.done /\ unit.selector = "goal"
    /\ LET r == select_diverse_recipes(unit.candidates, unit.target_count, unit.outcome)
       IN /\ unit' = [unit EXCEPT !.done = TRUE, !.result = r.result]
          /\ raised' = r.raised
          /\ encodeCalls' = r.encode
          /\ kmeansCalls' = r.kmeans
    /\ UnitFrame

\* A call of select_diverse_inventory_recipes.
CallSelectInventory ==
    /\ unit.op = "select" /\ ~unit.done /\ unit.selector = "inventory"
    /\ LET r == select_diverse_inventory_recipes(unit.candidates, unit.target_count,
                                                 unit.outcome)
       IN /\ unit' = [unit EXCEPT !.done = TRUE, !.result = r.result]
          /\ raised' = r.raised
          /\ encodeCalls' = r.encode
          /\ kmeansCalls' = r.kmeans
    /\ UnitFrame

\* A selector applied again to what it returned, with the same target_count
\* and the same behaviour of the services; second keeps the new result.
CallSelectAgain ==
    /\ unit.op = "select" /\ unit.done /\ ~unit.twice /\ ~raised
    /\ LET r == IF unit.selector = "goal"
                THEN select_diverse_recipes(unit.result, unit.target_count, unit.outcome)
                ELSE select_diverse_inventory_recipes(unit.result, unit.target_count,
                                                      unit.outcome)
       IN /\ unit' = [unit EXCEPT !.twice = TRUE, !.second = r.result]
          /\ raised' = r.raised
          /\ encodeCalls' = encodeCalls + r.encode
          /\ kmeansCalls' = kmeansCalls + r.kmeans
    /\ UnitFrame

\* The inventory loop and the scoring of recommend_from_inventory (lines
\* 382-436) on a submitted item list.
CallScoreInventory ==
    /\ unit.op = "pantry" /\ ~unit.done
    /\ LET inv == BuildInventory(<< >>, unit.items)
       IN unit' = [unit EXCEPT !.done = TRUE, !.inv = inv,
                               !.scored = ScoredAndSorted(unit.map, inv)]
    /\ UNCHANGED <<raised, encodeCalls, kmeansCalls>>
    /\ UnitFrame

NextUnit ==
    \/ CallCoverage
    \/ unit.op = "coverage" /\ \E ing_id \in AllIds : CallCoverageWithItem(ing_id)
    \/ CallBonus
    \/ CallWithDate
    \/ unit.op = "date" /\ \E later \in ExaminedDates : CallWithLaterDate(later)
    \/ CallReasoning
    \/ CallSelectGoal
    \/ CallSelectInventory
    \/ CallSelectAgain
    \/ CallScoreInventory

SpecUnit == InitUnit /\ [][NextUnit]_vars

----------------------------------------------------------------------------
(* Properties of recommend_from_inventory and create_meal_plan, under Spec *)

InventoryPaths == {"no_inventory", "no_match", "truncate", "cluster", "fallback"}

\* The inventory call has returned.
InventoryReturned == pc = "done" /\ path \in InventoryPaths

\* The goal call has returned a meal plan.
GoalReturned == pc = "done" /\ path \in {"goal_all", "goal_cluster"} /\ ~raised

\* The coverage score of a catalog recipe against the inventory of the call.
CoverageOf(recipe_id) ==
    calculate_coverage_and_missing(RecipeRows(recipe_ing_map, recipe_id),
                                   DOMAIN inventory_dict).coverage

\* The total score of a catalog recipe against the inventory of the call.
TotalOf(recipe_id) == ScoreRecipe(recipe_ing_map, inventory_dict, recipe_id).total_score

\* C1: no recipe whose coverage score against the pantry is 0 is in the list
\* returned by recommend_from_inventory, whichever path produced the list.
C1_NoZeroCoverageEmitted ==
    InventoryReturned =>
        \A i \in DOMAIN recommendations : CoverageOf(recommendations[i].recipe_id) # 0

\* A clustered answer for a catalog that holds a recipe of coverage 0.
C1_Witness ==
    /\ InventoryReturned /\ path = "cluster"
    /\ recommendations # << >>
    /\ \E r \in RecipeIds : recipe_ing_map[r] # {} /\ CoverageOf(r) = 0

\* C6: the list returned by recommend_from_inventory is in non-increasing
\* order of total score, on every path.
C6_SortedByTotalScore ==
    InventoryReturned =>
        \A i, j \in DOMAIN recommendations :
            i < j => TotalOf(recommendations[i].recipe_id)
                         >= TotalOf(recommendations[j].recipe_id)

\* A clustered answer of two recipes of different total score, led by the
\* best candidate.
C6_Witness ==
    /\ InventoryReturned /\ path = "cluster"
    /\ Len(recommendations) = 2
    /\ TotalOf(recommendations[1].recipe_id) > TotalOf(recommendations[2].recipe_id)
    /\ recommendations[1].recipe_id = scored_recipes[1].recipe_id
    /\ num_recipes = 2

\* C7: the inventory answer has at most num_recipes entries and the meal
\* plan has at most n_meals entries.
C7_AtMostRequested ==
    /\ InventoryReturned => Len(recommendations) <= num_recipes
    /\ GoalReturned => Len(meal_plan) <= num_recipes

\* More candidates than asked for, cut to the requested number by the
\* fallback of the selector.
C7_Witness ==
    /\ InventoryReturned /\ path = "fallback"
    /\ Len(scored_recipes) > num_recipes
    /\ Len(recommendations) = num_recipes

\* The candidate list handed to the preference filter, recomputed from the
\* tables and the inventory of the call.
GivenToFilter == ScoredAndSorted(recipe_ing_map, inventory_dict)

\* The text-match service raised, answered without a text, or named none of
\* the candidates.
FilterFailed == filterResponse \in {"raised", "no_match"}

\* C11: when the text-match service raises or gives an unusable answer, the
\* filter returns the list it was given, same elements in the same order,
\* and the call goes on to diversity selection with that list.
C11_FilterFailsOpen ==
    FilterFailed =>
        /\ pc \in {"select", "done"}
        /\ scored_recipes = GivenToFilter
        /\ pc = "done" =>
               /\ path \in {"truncate", "cluster", "fallback"}
               /\ Range(diverse_recipes) \subseteq Range(GivenToFilter)
               /\ path # "cluster" =>
                      diverse_recipes =
                          SubSeq(GivenToFilter, 1, Min(num_recipes, Len(GivenToFilter)))

\* The service raised on a list of several candidates and the call went on
\* to return recommendations.
C11_Witness ==
    /\ InventoryReturned /\ filterResponse = "raised"
    /\ Len(scored_recipes) >= 2
    /\ recommendations # << >>

\* The scoring loop has run and left candidates.
InventoryScored == pc \in {"filter", "select"} \/ (InventoryReturned /\ scored_recipes # << >>)

\* C16: candidates are ranked by 0.7 * coverage + 0.3 * urgency, a score
\* for which (1.0, 0.0) gives 0.7, (0.0, 1.0) gives 0.3, (1.0, 1.0) gives
\* 1.0, and the higher coverage wins when two inputs are swapped.
C16_WeightedCombinedScore ==
    /\ combined_score(ScoreUnit, 0) = 70 * Hundredth
    /\ combined_score(0, ScoreUnit) = 30 * Hundredth
    /\ combined_score(ScoreUnit, ScoreUnit) = ScoreUnit
    /\ \A a, b \in {0, 50 * Hundredth, 90 * Hundredth, ScoreUnit} :
           a > b => combined_score(a, b) > combined_score(b, a)
    /\ InventoryScored =>
           \A c \in Range(scored_recipes) :
               c.total_score =
                   combined_score(c.coverage_score, PantryUrgency(inventory_dict))

\* C17: the coverage score and the total score of every emitted recipe lie
\* between 0 and 1.
C17_ScoresWithinUnit ==
    InventoryReturned =>
        \A c \in Range(diverse_recipes) :
            /\ c.coverage_score \in 0..ScoreUnit
            /\ c.total_score \in 0..ScoreUnit

\* No service was called: neither the embedder, nor the clustering, nor the
\* text-match service.
NoServiceCalled == encodeCalls = 0 /\ kmeansCalls = 0 /\ filterResponse = "none"

\* C18: a call whose inventory holds no usable item returns at line 399,
\* before the scoring loop: an empty list and a non-empty summary, nothing
\* raised, no candidate scored, no service called.  A call in which no
\* recipe has a coverage above 0 returns an empty list and a non-empty
\* summary as well.
C18_EmptyResultWithSummary ==
    InventoryReturned =>
        /\ DOMAIN inventory_dict = {} =>
               /\ path = "no_inventory"
               /\ recommendations = << >> /\ summary # ""
               /\ ~raised
               /\ scored_recipes = << >> /\ diverse_recipes = << >>
               /\ NoServiceCalled
        /\ (DOMAIN inventory_dict # {} /\ \A r \in RecipeIds : CoverageOf(r) = 0) =>
               /\ path = "no_match"
               /\ recommendations = << >> /\ summary # ""
               /\ ~raised
               /\ NoServiceCalled

\* The call returned for want of a usable inventory item.
C18_Witness ==
    /\ InventoryReturned /\ path = "no_inventory"
    /\ DOMAIN inventory_dict = {}
    /\ summary = "No valid inventory items provided."

----------------------------------------------------------------------------
(* Properties of the pure functions, under SpecUnit *)

CoverageCalled == unit.op = "coverage" /\ unit.done

\* C2: for a non-empty required set R and pantry keys P the score is
\* |R \cap P| / |R| and missing lists exactly the members of R outside P.
C2_CoverageFormula ==
    (CoverageCalled /\ unit.required # {}) =>
        /\ unit.coverage * Cardinality(unit.required)
               = Cardinality(unit.required \cap unit.keys) * ScoreUnit
        /\ Range(unit.missing) = {MissingName(x) : x \in unit.required \ unit.keys}
        /\ Len(unit.missing) = Cardinality(unit.required \ unit.keys)
        /\ (unit.required = {1, 2, 3, 4, 5} /\ unit.keys = {2, 4}) =>
               /\ 10 * unit.coverage = 4 * ScoreUnit
               /\ Range(unit.missing) = {MissingName(1), MissingName(3), MissingName(5)}
        /\ (unit.required = {1, 2, 4, 5} /\ unit.keys = {1, 2}) =>
               /\ 10 * unit.coverage = 5 * ScoreUnit
               /\ Range(unit.missing) = {MissingName(4), MissingName(5)}

\* The first example of the claim: five required, two of them in the pantry.
C2_Witness ==
    /\ CoverageCalled
    /\ unit.required = {1, 2, 3, 4, 5} /\ unit.keys = {2, 4}
    /\ Len(unit.missing) = 3

\* C3: a recipe with no required ingredient gets score 1.0 and an empty
\* missing list, never 0.
C3_EmptyRecipeFullCoverage ==
    (CoverageCalled /\ unit.required = {}) =>
        unit.coverage = ScoreUnit /\ unit.missing = << >>

\* C4: for a fixed required set the score never decreases when an item is
\* added to the pantry, and is unchanged when the item is not required.
C4_CoverageMonotone ==
    (CoverageCalled /\ unit.added # {}) =>
        /\ unit.coverage >= unit.before
        /\ unit.added \cap unit.required = {} => unit.coverage = unit.before

\* A required item was added and the score rose.
C4_Witness ==
    /\ CoverageCalled /\ unit.added # {}
    /\ unit.added \subseteq unit.required
    /\ unit.coverage > unit.before

BonusCalled == unit.op = "bonus" /\ unit.done

\* The covered ingredients of the call that expire within two days (an
\* ingredient without a date has no days), and those that expire later but
\* within seven.
CoveredCritical ==
    {i \in DOMAIN unit.available :
        /\ unit.available[i] \in DOMAIN unit.inv
        /\ \E d \in unit.inv[unit.available[i]].days_until_expiration : d <= 2}

CoveredWarning ==
    {i \in DOMAIN unit.available :
        /\ unit.available[i] \in DOMAIN unit.inv
        /\ \E d \in unit.inv[unit.available[i]].days_until_expiration :
               2 < d /\ d <= 7}

\* C5: the bonus is min(0.30, 0.15 * #(d <= 2) + 0.05 * #(2 < d <= 7)) over
\* the covered ingredients; later or missing dates add nothing.
C5_BonusFormula ==
    BonusCalled =>
        /\ unit.bonus = Min(30, 15 * Cardinality(CoveredCritical)
                                + 5 * Cardinality(CoveredWarning))
        /\ unit.bonus <= 30

\* Three ingredients expiring within two days: 0.45 before the cap.
C5_Witness ==
    /\ BonusCalled
    /\ Cardinality(CoveredCritical) = 3
    /\ unit.bonus = 30

SelectCalled == unit.op = "select" /\ unit.done

\* min(target_count, len(candidates)) of the call.
Expected == Min(unit.target_count, Len(unit.candidates))

\* The clusters of the call that hold a candidate.
Populated ==
    {c \in 0..(Expected - 1) : ClusterIndices(unit.outcome.labels, c) # {}}

\* The selector of the call went through embedding and clustering.
Clustered ==
    /\ Len(unit.candidates) > unit.target_count
    /\ unit.outcome.kind = "ok"

C9_UnchangedWithoutClustering ==
    (SelectCalled /\ Len(unit.candidates) <= unit.target_count) =>
        /\ ~raised
        /\ unit.result = unit.candidates
        /\ encodeCalls = 0 /\ kmeansCalls = 0
        /\ unit.twice => unit.second = unit.candidates

\* A selector applied twice to exactly target_count candidates.
C9_Witness ==
    /\ SelectCalled /\ unit.twice
    /\ Len(unit.candidates) = unit.target_count
    /\ unit.target_count >= 2
    /\ unit.second = unit.candidates

\* C10: when the embedding or the clustering call fails the selector does
\* not raise and returns the first target_count candidates, in the goal-mode
\* selector as in the inventory-mode one.
C10_FallbackOnFailure ==
    (/\ SelectCalled
     /\ Len(unit.candidates) > unit.target_count
     /\ unit.outcome.kind \in {"encode_error", "kmeans_error"}) =>
        /\ ~raised
        /\ unit.result = SubSeq(unit.candidates, 1, unit.target_count)

----------------------------------------------------------------------------
(* Properties of generate_reasoning, under SpecUnit *)

ReasoningCalled == unit.op = "reasoning" /\ unit.done

\* round(coverage * 100): the nearest whole percentage, a tie going to the
\* even one.
RoundedPct(score) ==
    LET q == (score * 100) \div ScoreUnit
        r == (score * 100) % ScoreUnit
    IN IF 2 * r > ScoreUnit THEN q + 1
       ELSE IF 2 * r < ScoreUnit THEN q
       ELSE IF q % 2 = 0 THEN q ELSE q + 1

AllIngredientsClause == <<<<"You have all the ingredients needed", 0>>>>

UsesPctClause(pct) ==
    <<<<"Uses ", 0>>, <<"%d", pct>>, <<"% of required ingredients", 0>>>>

\* C12: the coverage clause shows round(coverage * 100), and reads "You have
\* all the ingredients needed" exactly when that percentage is at least 100
\* (coverage 2/3 shows 67).
C12_RoundedPercentage ==
    ReasoningCalled =>
        LET pct == RoundedPct(unit.coverage_score)
        IN IF pct >= 100
           THEN SubSeq(unit.reasoning, 1, 1) = AllIngredientsClause
           ELSE SubSeq(unit.reasoning, 1, 3) = UsesPctClause(pct)

\* The coverage clause at the head of the text, whichever it is.
ShownCoverageClause ==
    IF SubSeq(unit.reasoning, 1, 1) = AllIngredientsClause
    THEN AllIngredientsClause
    ELSE SubSeq(unit.reasoning, 1, 3)

\* The names of a list of at most three, separated by ", ".
CommaList(names) ==
    IF Len(names) = 1 THEN <<names[1]>>
    ELSE IF Len(names) = 2 THEN <<names[1], <<", ", 0>>, names[2]>>
    ELSE <<names[1], <<", ", 0>>, names[2], <<", ", 0>>, names[3]>>

ExpectedExpiring ==
    LET e == unit.expiring_items
        first3 == [i \in 1..Min(3, Len(e)) |-> e[i].name]
    IN IF Len(e) = 1 THEN <<<<"Uses expiring ", 0>>, e[1].name>>
       ELSE <<<<"Uses expiring ingredients: ", 0>>>> \o CommaList(first3)

ExpectedMissing ==
    LET m == unit.missing_ingredients
    IN IF Len(m) <= 2 THEN <<<<"Missing: ", 0>>>> \o CommaList(m)
       ELSE <<<<"Missing ", 0>>, <<"%d", Len(m)>>, <<" ingredients", 0>>>>

\* C13: after the coverage clause comes an expiring clause only for a
\* non-empty expiring list (the one name, or the first three names) and
\* then a missing clause only for a non-empty missing list (the one or two
\* names, or the count), each joined by ". ", and one period ends the text.
C13_ClausesInOrder ==
    ReasoningCalled =>
        unit.reasoning =
            ShownCoverageClause
            \o (IF unit.expiring_items = << >> THEN << >>
                ELSE <<<<". ", 0>>>> \o ExpectedExpiring)
            \o (IF unit.missing_ingredients = << >> THEN << >>
                ELSE <<<<". ", 0>>>> \o ExpectedMissing)
            \o <<<<".", 0>>>>

\* Four expiring items, of which three are named, and three missing
\* ingredients, of which the count is shown.
C13_Witness ==
    /\ ReasoningCalled
    /\ Len(unit.expiring_items) = 4
    /\ Len(unit.missing_ingredients) = 3
    /\ Len(unit.reasoning) = 3 + 1 + 6 + 1 + 3 + 1

----------------------------------------------------------------------------
(* Properties of the expiration functions for one date, under SpecUnit *)

DateCalled == unit.op = "date" /\ unit.done

\* The days until the date under examination, for a date that parses.
DaysOf(expiration_date) == expiration_date.day - Today

\* C14: the urgency lies in [0,1], is 1.0 for every expired date, does not
\* increase from a date d >= 0 to a later one, is 0.0 beyond 14 days, and
\* the boundary days 2, 7 and 14 take the value of the bracket they close
\* (0.80, 0.35, 0.16).
C14_UrgencySchedule ==
    DateCalled =>
        /\ unit.urgency \in 0..100
        /\ unit.expiration_date.kind = "iso" =>
               LET d == DaysOf(unit.expiration_date)
               IN /\ d < 0 => unit.urgency = 100
                  /\ d > 14 => unit.urgency = 0
                  /\ d = 2 => unit.urgency = 80
                  /\ d = 7 => unit.urgency = 35
                  /\ d = 14 => unit.urgency = 16
        /\ \A e \in unit.earlier : e >= 0 => unit.urgency <= unit.before

\* Urgency compared across the boundary of the second bracket: day 7 and
\* then day 8.
C14_Witness ==
    /\ DateCalled
    /\ unit.earlier = {7} /\ unit.days_left = {8}
    /\ unit.urgency < unit.before

\* C15: a missing, empty or unparseable date does not raise and counts as
\* no date: no days until expiration, urgency 0.0, no bonus, and no entry
\* in the expiring list.
C15_BadDateIsNoDate ==
    (DateCalled /\ unit.expiration_date.kind \in {"null", "empty", "malformed"}) =>
        /\ ~raised
        /\ unit.days_left = {}
        /\ unit.urgency = 0
        /\ unit.bonus = 0
        /\ unit.expiring_items = << >>

\* An unparseable date went through the three functions.
C15_Witness ==
    /\ DateCalled /\ unit.expiration_date.kind = "malformed"
    /\ unit.days_left = {}

----------------------------------------------------------------------------
(* Properties of the endpoints, under SpecApi *)

\* The engine has not been entered: none of what it loads, builds or
\* returns is there.
EngineUntouched ==
    /\ invoked = "none"
    /\ recipe_ing_map = << >> /\ inventory_dict = << >>
    /\ scored_recipes = << >> /\ recommendations = << >>
    /\ ranked = << >> /\ meal_plan = << >>
    /\ NoServiceCalled

\* A request that validation must turn down.
InvalidInventoryRequest ==
    /\ request.endpoint = "inventory-recommend"
    /\ \/ Len(request.inventory) = 0
       \/ request.num_recipes <= 0
       \/ request.num_recipes > NumRecipesLimit

InvalidMealRequest ==
    /\ request.endpoint = "recommender"
    /\ \/ request.goal \in {"", " "}
       \/ request.num_meals \notin {3, 5, 7}

C20_CountBetween1And10 ==
    (request.endpoint = "inventory-recommend"
     /\ (request.num_recipes < 1 \/ request.num_recipes > 10)) =>
        /\ pc = "responded"
        /\ status.code \in {400, 422}
        /\ invoked = "none"
        /\ recommendations = << >>

\* ---------------------------------------------------------------------
\* Goal expansion, ranking order and shared state (specification Spec)
\* ---------------------------------------------------------------------

\* The goal call is over and one of its two calls of the language-model
\* service failed.
GoalServiceFailed ==
    pc = "done" /\ goal.service \in {"nutrition_goal_error", "expand_goal_error"}

\* C21: when a call of the language-model service fails, goal expansion
\* yields a fallback text and the goal call still completes: no error leaves
\* rank_recipes_by_goal or create_meal_plan, and the caller gets a non-empty
\* expanded goal text.
C21_FallbackGoalText ==
    GoalServiceFailed => (~raised /\ goal.exp_goal # "")

\* Row i of the ranking comes before row j in the descending stable order:
\* higher similarity first, catalog order among equal similarities.
StablyBefore(a, b) ==
    \/ a.similarity > b.similarity
    \/ a.similarity = b.similarity /\ a.recipe_id < b.recipe_id

\* C22: the ranking of rank_recipes_by_goal is in non-increasing similarity
\* order with recipes of equal similarity in catalog order, and holds the
\* top_k rows whatever the meal count; the inventory-mode score sort keeps
\* catalog order among candidates of equal total score.
C22_StableDescendingSort ==
    /\ (pc = "done" /\ goal.service \in {"ok", "expand_goal_error", "not_reached"}) =>
           /\ Len(ranked) = Min(TOP_K, NumRecipes)
           /\ \A i, j \in DOMAIN ranked : i < j => StablyBefore(ranked[i], ranked[j])
    /\ (pc \in {"filter", "select"}) =>
           \A i, j \in DOMAIN GivenToFilter :
               i < j =>
                   \/ GivenToFilter[i].total_score > GivenToFilter[j].total_score
                   \/ /\ GivenToFilter[i].total_score = GivenToFilter[j].total_score
                      /\ GivenToFilter[i].recipe_id < GivenToFilter[j].recipe_id

\* C23: the expanded goal text returned by a goal call is the text that was
\* embedded as the ranking query of that call.
C23_ReturnedTextIsQuery ==
    GoalReturned => goal.exp_goal = goal.nutri_goal

\* C26: no recommendation call writes to shared state: the memoized recipe
\* catalog, once loaded, keeps exactly the columns load_recipe_data gave it.
C26_CatalogLeftAsLoaded ==
    cache["load_recipe_data"] # {} => catalogColumns = BaseColumns

\* The candidates handed to the selection stage (line 443).
HandedToSelection == PyPrefix(scored_recipes, Min(TopCandidates, Len(scored_recipes)))

\* The highest total score of a non-empty list.
MaxTotal(s) ==
    CHOOSE m \in Range(TotalScores(s)) : \A x \in Range(TotalScores(s)) : x <= m

\* C28: whenever recommend_from_inventory returns a non-empty list, its
\* highest total score is the highest total score of the candidates handed
\* to the selection stage, on the truncation path, the clustering path and
\* the fallback path.
C28_BestCandidateKept ==
    (InventoryReturned /\ diverse_recipes # << >>) =>
        /\ path \in {"truncate", "cluster", "fallback"}
        /\ MaxTotal(diverse_recipes) = MaxTotal(HandedToSelection)
        /\ Len(recommendations) = Len(diverse_recipes)
        /\ \E i \in DOMAIN recommendations :
               recommendations[i].recipe_id \in
                   {c.recipe_id : c \in {d \in Range(HandedToSelection) :
                                            d.total_score = MaxTotal(HandedToSelection)}}

\* Clustering picked two of three candidates of unequal scores, the best
\* among them.
C28_Witness ==
    /\ InventoryReturned /\ path = "cluster"
    /\ Len(HandedToSelection) = 3 /\ Len(diverse_recipes) = 2
    /\ \E c \in Range(HandedToSelection) : c.total_score < MaxTotal(HandedToSelection)
    /\ MaxTotal(diverse_recipes) = MaxTotal(HandedToSelection)

\* s is a sub-sequence of full: its elements are elements of full, taken in
\* the order of full, none twice.
IsSubsequence(sub, full) ==
    \E f \in [DOMAIN sub -> DOMAIN full] :
        /\ \A i \in DOMAIN sub : full[f[i]] = sub[i]
        /\ \A i, j \in DOMAIN sub : i < j => f[i] < f[j]

\* C29: for every answer of the service, matching names, no matching name,
\* unrelated text or exception, filter_by_preferences returns a non-empty
\* sub-sequence of the non-empty list it was given, in the order of that
\* list and with no recipe added.
C29_NonEmptySubsequence ==
    (pc \in {"select", "done"} /\ filterResponse # "none") =>
        /\ GivenToFilter # << >>
        /\ scored_recipes # << >>
        /\ IsSubsequence(scored_recipes, GivenToFilter)

\* The service named the second and third of three candidates, and the
\* filter kept these two in their order.
C29_Witness ==
    /\ pc = "select" /\ filterResponse = "text"
    /\ Len(GivenToFilter) = 3
    /\ scored_recipes = SubSeq(GivenToFilter, 2, 3)

\* ---------------------------------------------------------------------
\* The selectors on every cluster assignment (specification SpecUnit)
\* ---------------------------------------------------------------------

\* Candidate i of the call has the highest score of its cluster.
BestOfItsCluster(i) ==
    \A j \in ClusterIndices(unit.outcome.labels, unit.outcome.labels[i]) :
        unit.candidates[j].total_score <= unit.candidates[i].total_score

\* C24: for every cluster assignment, those with empty clusters included,
\* a selector returns without raising exactly one candidate per populated
\* cluster, one of highest score in its cluster, and nothing for an empty
\* cluster; for select_diverse_recipes as for
\* select_diverse_inventory_recipes.
C24_OneBestPerPopulatedCluster ==
    (SelectCalled /\ Clustered) =>
        /\ ~raised
        /\ Len(unit.result) = Cardinality(Populated)
        /\ \A c \in Populated :
               \E i \in ClusterIndices(unit.outcome.labels, c) :
                   /\ BestOfItsCluster(i)
                   /\ \E r \in DOMAIN unit.result : unit.result[r] = unit.candidates[i]

----------------------------------------------------------------------------
(* Concurrent first calls of the memoized loaders, specification SpecLoad.
   The endpoints of index.py are plain def functions, which the server runs
   on worker threads; a loader call is the wrapper of functools.lru_cache
   around the function body: look the key up, on a miss run the body, then
   store the result unless the key has been stored meanwhile, and return the
   result of the own run. *)

\* The loaders the recommendation calls invoke (lines 163-165, 379-380, 536).
RequestLoaders == {"load_recipe_data", "load_embedder", "load_recipe_ingredient_map"}

InitLoad ==
    /\ recipe_ing_map = << >>
    /\ pc = "load"
    /\ inventory_dict = << >>
    /\ scored_recipes = << >>
    /\ num_recipes = 0
    /\ diverse_recipes = << >>
    /\ path = "none"
    /\ recommendations = << >>
    /\ summary = ""
    /\ ranked = << >>
    /\ meal_plan = << >>
    /\ raised = FALSE
    /\ encodeCalls = 0
    /\ kmeansCalls = 0
    /\ unit = NoUnit
    /\ filterResponse = "none"
    /\ request = NoRequest
    /\ status = NoStatus
    /\ invoked = "none"
    /\ goal = NoGoal
    /\ cache = ColdCache
    /\ bodyRuns = ImportRuns
    /\ catalogColumns = BaseColumns
    /\ threads = NoThreads

LoadFrame == UNCHANGED <<recipe_ing_map, pc, inventory_dict, scored_recipes, num_recipes,
                         diverse_recipes, path, recommendations, summary, ranked,
                         meal_plan, raised, encodeCalls, kmeansCalls, unit,
                         filterResponse, request, status, invoked, goal,
                         catalogColumns>>

\* Thread t calls a loader: the wrapper finds the cached object and returns
\* it, or finds nothing and goes on to the body.
Lookup(t, loader) ==
    /\ pc = "load"
    /\ threads[t].pc \in {"idle", "done"}
    /\ threads' = [threads EXCEPT ![t] =
                       IF cache[loader] # {}
                       THEN [pc |-> "done", loader |-> loader, run |-> 0, inner |-> 0,
                             result |-> cache[loader]]
                       ELSE [pc |-> "body", loader |-> loader, run |-> 0, inner |-> 0,
                             result |-> {}]]
    /\ UNCHANGED <<cache, bodyRuns>>
    /\ LoadFrame

\* The body of the loader starts; a data loader calls load_supabase() first
\* (lines 41 and 229), whose wrapper finds the client or not.
EnterBody(t) ==
    /\ threads[t].pc = "body"
    /\ LET loader == threads[t].loader
       IN /\ bodyRuns' = [bodyRuns EXCEPT ![loader] = @ + 1]
          /\ threads' = [threads EXCEPT
                            ![t].run = bodyRuns[loader] + 1,
                            ![t].pc = IF /\ loader \in DataLoaders
                                         /\ cache["load_supabase"] = {}
                                      THEN "inner" ELSE "rest"]
    /\ UNCHANGED cache
    /\ LoadFrame

\* The body of load_supabase, called from the body of a data loader.
InnerBody(t) ==
    /\ threads[t].pc = "inner"
    /\ bodyRuns' = [bodyRuns EXCEPT !["load_supabase"] = @ + 1]
    /\ threads' = [threads EXCEPT ![t].inner = bodyRuns["load_supabase"] + 1,
                                  ![t].pc = "inner_store"]
    /\ UNCHANGED cache
    /\ LoadFrame

\* The wrapper of load_supabase stores the client unless one has been stored
\* meanwhile; the data loader goes on with the client of its own call.
InnerStore(t) ==
    /\ threads[t].pc = "inner_store"
    /\ cache' = [cache EXCEPT !["load_supabase"] =
                    IF @ = {} THEN {Handle("load_supabase", threads[t].inner)} ELSE @]
    /\ threads' = [threads EXCEPT ![t].pc = "rest"]
    /\ UNCHANGED bodyRuns
    /\ LoadFrame

\* The body returns its object; the wrapper stores it unless the key has been
\* stored meanwhile, and returns the object of this run to the caller.
Store(t) ==
    /\ threads[t].pc = "rest"
    /\ LET loader == threads[t].loader
           object == Handle(loader, threads[t].run)
       IN /\ cache' = [cache EXCEPT ![loader] = IF @ = {} THEN {object} ELSE @]
          /\ threads' = [threads EXCEPT ![t].pc = "done", ![t].result = {object}]
    /\ UNCHANGED bodyRuns
    /\ LoadFrame

NextLoad ==
    \/ \E t \in Threads : \E loader \in RequestLoaders : Lookup(t, loader)
    \/ \E t \in Threads : EnterBody(t)
    \/ \E t \in Threads : InnerBody(t)
    \/ \E t \in Threads : InnerStore(t)
    \/ \E t \in Threads : Store(t)

SpecLoad == InitLoad /\ [][NextLoad]_vars

\* Thread t has a loader call behind it.
Loaded(t) == threads[t].pc = "done"

\* C25: each memoized handle is initialized at most once per process: when
\* several threads make the first call of a loader concurrently its body
\* runs only once and all callers receive the same object.
C25_InitializedAtMostOnce ==
    /\ \A loader \in Loaders : bodyRuns[loader] <= 1
    /\ \A t, u \in Threads :
           (Loaded(t) /\ Loaded(u) /\ threads[t].loader = threads[u].loader) =>
               threads[t].result = threads[u].result

----------------------------------------------------------------------------
(* Properties of the inventory loop and the scoring, under SpecUnit *)

PantryCalled == unit.op = "pantry" /\ unit.done

\* The ingredient ids of the submitted items, and the date of the last
\* submitted item with a given id.
SubmittedIds == {unit.items[i].ingredient_id : i \in DOMAIN unit.items}
LastPosition(ing_id) ==
    CHOOSE i \in DOMAIN unit.items :
        /\ unit.items[i].ingredient_id = ing_id
        /\ \A j \in DOMAIN unit.items : unit.items[j].ingredient_id = ing_id => j <= i
LastDays(ing_id) == unit.items[LastPosition(ing_id)].expiration_date.day - Today
LastHasDate(ing_id) == unit.items[LastPosition(ing_id)].expiration_date.kind = "iso"

\* The bonus, in hundredths, and the expiring annotation the last item of an
\* id calls for.
LastBonus(ing_id) ==
    IF ~LastHasDate(ing_id) THEN 0
    ELSE IF LastDays(ing_id) <= 2 THEN 15
    ELSE IF LastDays(ing_id) <= 7 THEN 5
    ELSE 0
LastAnnotations(ids) ==
    {[name |-> IngredientName(x), expires_in_days |-> LastDays(x)] :
        x \in {y \in ids : LastHasDate(y) /\ LastDays(y) <= 7}}

\* The rows of a scored recipe and those the pantry covers.
RowsOf(recipe) == unit.map[recipe.recipe_id]
CoveredOf(recipe) == RowsOf(recipe) \cap SubmittedIds

\* C27: with several items of the same ingredient id the pantry holds one
\* entry for the id, that of the last such item: its date alone decides the
\* days until expiration, the bonus and the expiring annotation, and the
\* duplicate does not change the coverage.
C27_LastItemWins ==
    PantryCalled =>
        /\ DOMAIN unit.inv = SubmittedIds
        /\ \A x \in SubmittedIds :
               unit.inv[x].days_until_expiration
                   = IF LastHasDate(x) THEN {LastDays(x)} ELSE {}
        /\ \A i \in DOMAIN unit.scored :
               LET r == unit.scored[i]
                   bonus == SumSeq([k \in DOMAIN r.available_ingredients |->
                                       LastBonus(r.available_ingredients[k])])
               IN /\ r.coverage_score * Cardinality(RowsOf(r))
                         = Cardinality(CoveredOf(r)) * ScoreUnit
                  /\ Range(r.available_ingredients) = CoveredOf(r)
                  /\ Len(r.available_ingredients) = Cardinality(CoveredOf(r))
                  /\ r.total_score = r.coverage_score + Min(bonus, 30) * Hundredth
                  /\ Range(r.uses_expiring) = LastAnnotations(CoveredOf(r))
                  /\ Len(r.uses_expiring) = Cardinality(LastAnnotations(CoveredOf(r)))

\* Ingredient 1 submitted twice, expired first and 10 days ahead last, and a
\* recipe of ingredient 1 scored with no bonus and no annotation.
C27_Witness ==
    /\ PantryCalled
    /\ Len(unit.items) = 2
    /\ unit.items[1] = [ingredient_id |-> 1,
                        expiration_date |-> [kind |-> "iso", day |-> Today - 1]]
    /\ unit.items[2] = [ingredient_id |-> 1,
                        expiration_date |-> [kind |-> "iso", day |-> Today + 10]]
    /\ unit.inv[1].days_until_expiration = {10}
    /\ \E i \in DOMAIN unit.scored :
           /\ unit.scored[i].total_score = ScoreUnit
           /\ unit.scored[i].uses_expiring = << >>

\* The submitted item that decides for an id is past its date.
Expired(ing_id) == LastHasDate(ing_id) /\ LastDays(ing_id) < 0

\* It is not expiring: no date, or more than 7 days ahead.
NotExpiring(ing_id) == ~LastHasDate(ing_id) \/ LastDays(ing_id) > 7

\* The position of a recipe in the scored and sorted list, 0 if absent.
PositionOf(recipe_id) ==
    IF \E i \in DOMAIN unit.scored : unit.scored[i].recipe_id = recipe_id
    THEN CHOOSE i \in DOMAIN unit.scored : unit.scored[i].recipe_id = recipe_id
    ELSE 0

\* C30: an item past its date counts as one expiring within 2 days: every
\* recipe covering it gets the critical bonus of 0.15 for it and lists it in
\* uses_expiring, so a recipe whose covered ingredients are all expired is
\* emitted and comes before a recipe with as many rows covering as many
\* ingredients none of which is expiring.
C30_ExpiredCountsAsCritical ==
    PantryCalled =>
        /\ \A i \in DOMAIN unit.scored :
               LET r == unit.scored[i]
                   expired == {x \in CoveredOf(r) : Expired(x)}
               IN /\ r.total_score >= r.coverage_score
                         + Min(15 * Cardinality(expired), 30) * Hundredth
                  /\ \A x \in expired :
                         \E k \in DOMAIN r.uses_expiring :
                             r.uses_expiring[k] = [name |-> IngredientName(x),
                                                   expires_in_days |-> LastDays(x)]
        /\ \A a, b \in RecipeIds :
               LET covered_a == unit.map[a] \cap SubmittedIds
                   covered_b == unit.map[b] \cap SubmittedIds
               IN (/\ Cardinality(unit.map[a]) = Cardinality(unit.map[b])
                   /\ Cardinality(covered_a) = Cardinality(covered_b)
                   /\ covered_a # {}
                   /\ \A x \in covered_a : Expired(x)
                   /\ \A x \in covered_b : NotExpiring(x)) =>
                      /\ PositionOf(a) > 0 /\ PositionOf(b) > 0
                      /\ PositionOf(a) < PositionOf(b)

\* Recipe 3 needs the expired ingredient 2 and recipe 1 the undated
\* ingredient 1: recipe 3 comes first, with 1.15 against 1.0.
C30_Witness ==
    /\ PantryCalled
    /\ unit.map[1] = {1} /\ unit.map[3] = {2}
    /\ SubmittedIds = {1, 2}
    /\ Expired(2) /\ NotExpiring(1)
    /\ PositionOf(3) > 0 /\ PositionOf(3) < PositionOf(1)
    /\ unit.scored[PositionOf(3)].total_score = ScoreUnit + 15 * Hundredth
    /\ unit.scored[PositionOf(1)].total_score = ScoreUnit

====
